---- MODULE Spec2Model ----
(***************************************************************************)
(* State-machine model of the shopping-centre financial analysis pipeline  *)
(* (shopping_analysis): the delinquency, cash-flow, indicator and trend    *)
(* analyzers, the insight engine and executar_analise_completa.            *)
(*                                                                         *)
(* Units.  Input money amounts are Decimal values with no fractional part  *)
(* and are carried as integers (reais).  Values the code quantises to 0.01 *)
(* are carried in hundredths, values quantised to 0.1 in tenths, the Gini  *)
(* index (quantised to 0.001) in thousandths.  Decimal.quantize rounds     *)
(* half-to-even (the default context), which QuantizeRatio reproduces.     *)
(***************************************************************************)
EXTENDS Integers, Sequences, FiniteSets, TLC

VARIABLES
  inadimplentes,          \* input: the debtor ledger (dados['inadimplentes'])
  analise_inadimplencia,  \* what DelinquencyAnalyzer.analisar gave its caller
  movimentacoes,          \* input: the monthly records (dados['fluxo_caixa'])
  analise_cashflow,       \* what CashFlowAnalyzer.analisar gave its caller
  dados_kpis,             \* input: the indicator items (dados['kpis']), in dict order
  thresholds_kpi,         \* KPIAnalyzer.configuracao.thresholds_kpi of the caller's analyzer
  analise_kpis,           \* what KPIAnalyzer.analisar gave its caller
  analise_tendencias,     \* what TrendAnalyzer.analisar gave its caller
  dados_analise,          \* input: the analysis map handed to the insight engine
  insights_gerados,       \* InsightEngine.insights_gerados, the list the rules append to
  insights,               \* what gerar_insights_completos gave its caller
  listas_devolvidas,      \* the lists earlier calls on the engine returned, as the callers hold them
  entrada,                \* which executar_analise_completa runs: the script's or main.py's
  pc,                     \* the stage executar_analise_completa is about to start
  resultados,             \* its local map of stage results
  chamadas,               \* the analyzers and the engine it has invoked, in order
  retorno                 \* what executar_analise_completa gave its caller

varsInadimplencia == <<inadimplentes, analise_inadimplencia>>

varsCashflow == <<movimentacoes, analise_cashflow>>

varsKPIs == <<dados_kpis, thresholds_kpi, analise_kpis>>

varsInsights == <<dados_analise, insights_gerados, insights, listas_devolvidas>>

varsPipeline == <<entrada, pc, resultados, chamadas, retorno>>

vars == <<varsInadimplencia, varsCashflow, varsKPIs, analise_tendencias, varsInsights,
          varsPipeline>>

\* no call made yet
NaoChamado == [status |-> "none"]

\* a dict that has no entry: the empty function
SemEntradas == [k \in {} |-> 0]

\* dict.get(k, padrao)
Get(d, k, padrao) == IF k \in DOMAIN d THEN d[k] ELSE padrao

----------------------------------------------------------------------------
\* Arithmetic helpers

Abs(x) == IF x < 0 THEN -x ELSE x

Min2(a, b) == IF a <= b THEN a ELSE b

Max2(a, b) == IF a >= b THEN a ELSE b

RECURSIVE SumSeq(_)
SumSeq(s) == IF s = <<>> THEN 0 ELSE Head(s) + SumSeq(Tail(s))

\* decimal long division: k further digits of (acc + r/den)
RECURSIVE LongDiv(_, _, _, _)
LongDiv(acc, r, den, k) ==
  IF k = 0 THEN <<acc, r>>
  ELSE LongDiv(acc * 10 + ((r * 10) \div den), (r * 10) % den, den, k - 1)

\* (num/den) scaled by 10^k and rounded half-to-even, as Decimal.quantize does
QuantizeRatio(num, den, k) ==
  LET a  == Abs(num)
      pr == LongDiv(a \div den, a % den, den, k)
      q  == pr[1]
      r  == pr[2]
      up == (2 * r > den) \/ (2 * r = den /\ q % 2 = 1)
      m  == IF up THEN q + 1 ELSE q
  IN IF num < 0 THEN -m ELSE m

\* Python compares key tuples lexicographically; keys here are pairs of integers
ChaveMenor(a, b) == a[1] < b[1] \/ (a[1] = b[1] /\ a[2] < b[2])

\* Python's sorted(s, key=..., reverse=...): a stable sort, also under reverse=True.
\* chave[i] is the key of s[i]; the sort is carried out on the positions of s.
InsertStable(ordenados, x, chave, reverse) ==
  LET later == {i \in 1..Len(ordenados) :
                  IF reverse THEN ChaveMenor(chave[ordenados[i]], chave[x])
                             ELSE ChaveMenor(chave[x], chave[ordenados[i]])}
      pos   == IF later = {} THEN Len(ordenados) + 1
               ELSE CHOOSE i \in later : \A j \in later : i <= j
  IN SubSeq(ordenados, 1, pos - 1) \o <<x>> \o SubSeq(ordenados, pos, Len(ordenados))

SortedStable(s, chave, reverse) ==
  LET f[i \in 0..Len(s)] ==
        IF i = 0 THEN <<>> ELSE InsertStable(f[i - 1], i, chave, reverse)
  IN [k \in 1..Len(s) |-> s[f[Len(s)][k]]]

----------------------------------------------------------------------------
\* core/exceptions.py

InsufficientDataError(analysis_type, minimum_required, actual) ==
  [kind |-> "InsufficientDataError", analysis_type |-> analysis_type,
   minimum_required |-> minimum_required, actual |-> actual]

\* a CalculationError keeps the wrapped exception only as its cause (raise ... from e)
CalculationError(calculation_type, cause) ==
  [kind |-> "CalculationError", calculation_type |-> calculation_type, cause |-> cause]

ValidationError(field) == [kind |-> "ValidationError", field |-> field]

\* an exception of the interpreter: ZeroDivisionError, KeyError
BuiltinError(kind, field) == [kind |-> kind, field |-> field]

Raised(erro) == [status |-> "raised", erro |-> erro]

----------------------------------------------------------------------------
\* formatters/brazilian.py and core/enums.py: debtor risk

RiskLevels == {"MUITO_BAIXO", "BAIXO", "MEDIO", "ALTO", "MUITO_ALTO"}

\* position on the ordinal scale VERY_LOW < LOW < MEDIUM < HIGH < VERY_HIGH
RiskOrdinal(r) ==
  CASE r = "MUITO_BAIXO" -> 0
    [] r = "BAIXO"       -> 1
    [] r = "MEDIO"       -> 2
    [] r = "ALTO"        -> 3
    [] r = "MUITO_ALTO"  -> 4

\* both thresholds of a tier required together
classificar_risco_inadimplencia_AND(valor_divida, dias_atraso) ==
  IF valor_divida >= 50000 /\ dias_atraso >= 90 THEN "MUITO_ALTO"
  ELSE IF valor_divida >= 20000 /\ dias_atraso >= 60 THEN "ALTO"
  ELSE IF valor_divida >= 5000 /\ dias_atraso >= 30 THEN "MEDIO"
  ELSE IF valor_divida >= 1000 /\ dias_atraso >= 15 THEN "BAIXO"
  ELSE "MUITO_BAIXO"

\* the delay test of the lowest tier turned around
classificar_risco_inadimplencia_invertido(valor_divida, dias_atraso) ==
  IF valor_divida >= 50000 \/ dias_atraso >= 90 THEN "MUITO_ALTO"
  ELSE IF valor_divida >= 20000 \/ dias_atraso >= 60 THEN "ALTO"
  ELSE IF valor_divida >= 5000 \/ dias_atraso >= 30 THEN "MEDIO"
  ELSE IF valor_divida >= 1000 \/ dias_atraso <= 15 THEN "BAIXO"
  ELSE "MUITO_BAIXO"

classificar_risco_inadimplencia(valor_divida, dias_atraso) ==
  IF valor_divida >= 50000 \/ dias_atraso >= 90 THEN "MUITO_ALTO"
  ELSE IF valor_divida >= 20000 \/ dias_atraso >= 60 THEN "ALTO"
  ELSE IF valor_divida >= 5000 \/ dias_atraso >= 30 THEN "MEDIO"
  ELSE IF valor_divida >= 1000 \/ dias_atraso >= 15 THEN "BAIXO"
  ELSE "MUITO_BAIXO"

----------------------------------------------------------------------------
\* analyzers/delinquency_analyzer.py

\* status_map.get(inad['status'].lower(), CONFISSAO_DIVIDA)
status_map(s) ==
  CASE s = "confissao_divida" -> "CONFISSAO_DIVIDA"
    [] s = "em_atraso"        -> "EM_ATRASO"
    [] s = "negociacao"       -> "NEGOCIACAO"
    [] s = "acordo"           -> "ACORDO"
    [] s = "juridico"         -> "JURIDICO"
    [] OTHER                  -> "CONFISSAO_DIVIDA"

\* inad.get('dias_atraso', 60)
dias_atraso_de(inad) == IF inad.tem_dias THEN inad.dias_atraso ELSE 60

\* the validators of core.models.Inadimplente
Inadimplente_valido(valor_divida, dias_atraso) ==
  valor_divida > 0 /\ dias_atraso >= 0

\* one Inadimplente object, as built in the loop of _converter_inadimplentes
converter_um(inad) ==
  [nome         |-> inad.nome,
   valor_divida |-> inad.valor_divida,
   status       |-> status_map(inad.status),
   dias_atraso  |-> dias_atraso_de(inad),
   risco        |-> classificar_risco_inadimplencia(inad.valor_divida, dias_atraso_de(inad))]

\* the first record the Inadimplente validators reject, 0 when there is none
primeiro_invalido(inads) ==
  LET bad == {i \in 1..Len(inads) :
                ~Inadimplente_valido(inads[i].valor_divida, dias_atraso_de(inads[i]))}
  IN IF bad = {} THEN 0 ELSE CHOOSE i \in bad : \A j \in bad : i <= j

converter_inadimplentes(inads) ==
  IF primeiro_invalido(inads) # 0
  THEN Raised(CalculationError("conversao_inadimplente",
                               ValidationError("Inadimplente")))
  ELSE [status |-> "ok", objs |-> [i \in 1..Len(inads) |-> converter_um(inads[i])]]

valores_de(objs) == [i \in 1..Len(objs) |-> objs[i].valor_divida]

\* sorted(inadimplentes, key=lambda x: x.valor_divida, reverse=True)
\* key=lambda x: x.valor_divida
chave_valor_divida(objs) == [i \in 1..Len(objs) |-> <<objs[i].valor_divida, 0>>]

\* the ledger left in the order it was given
ordenar_por_valor_sem_ordem(objs) == objs

ordenar_por_valor(objs) == SortedStable(objs, chave_valor_divida(objs), TRUE)

\* ((valor_divida / total) * 100).quantize(Decimal('0.1')), in tenths of a percent
participacao_percentual(valor_divida, total) == QuantizeRatio(valor_divida, total, 3)

\* thresholds_risco['valor_alto'] and ['valor_medio'], in reais
valor_alto == 50000

valor_medio == 20000

\* the value weight of _calcular_prioridade_cobranca
peso_valor(valor_divida) ==
  IF valor_divida >= valor_alto THEN 40
  ELSE IF valor_divida >= valor_medio THEN 25
  ELSE 10

\* a rank weight that does not look at the position
peso_posicao_fixo(posicao, total) == 10

\* the rank weight: posicao <= total * 0.2, posicao <= total * 0.5
peso_posicao(posicao, total) ==
  IF 5 * posicao <= total THEN 30
  ELSE IF 2 * posicao <= total THEN 20
  ELSE 10

\* status_scores.get(inadimplente.status, 10)
status_scores(status) ==
  CASE status = "CONFISSAO_DIVIDA" -> 20
    [] status = "EM_ATRASO"        -> 15
    [] status = "NEGOCIACAO"       -> 10
    [] status = "ACORDO"           -> 5
    [] status = "JURIDICO"         -> 15
    [] OTHER                       -> 10

\* risco_scores.get(inadimplente.risco, 5)
risco_scores(risco) ==
  CASE risco = "MUITO_ALTO"  -> 10
    [] risco = "ALTO"        -> 8
    [] risco = "MEDIO"       -> 5
    [] risco = "BAIXO"       -> 3
    [] risco = "MUITO_BAIXO" -> 1
    [] OTHER                 -> 5

\* the score _calcular_prioridade_cobranca adds up before it picks the label
score_prioridade_cobranca(inad, posicao, total) ==
  peso_valor(inad.valor_divida) + peso_posicao(posicao, total)
    + status_scores(inad.status) + risco_scores(inad.risco)

\* DelinquencyAnalyzer._calcular_prioridade_cobranca
calcular_prioridade_cobranca(inad, posicao, total) ==
  LET score == score_prioridade_cobranca(inad, posicao, total)
  IN IF score >= 80 THEN "CRÍTICA"
     ELSE IF score >= 60 THEN "ALTA"
     ELSE IF score >= 40 THEN "MÉDIA"
     ELSE "BAIXA"

gerar_ranking_por_valor(objs) ==
  LET ordenados == ordenar_por_valor(objs)
      total     == SumSeq(valores_de(objs))
  IN [i \in 1..Len(ordenados) |->
        [posicao                 |-> i,
         nome                    |-> ordenados[i].nome,
         valor_divida            |-> ordenados[i].valor_divida,
         participacao_percentual |-> participacao_percentual(ordenados[i].valor_divida, total),
         status                  |-> ordenados[i].status,
         risco                   |-> ordenados[i].risco,
         prioridade_cobranca     |->
           calcular_prioridade_cobranca(ordenados[i], i, Len(ordenados))]]

RECURSIVE soma_ponderada(_, _)
\* sum(index[i] * valores[i]) with index = 1..n, from position i on
soma_ponderada(valores, i) ==
  IF i > Len(valores) THEN 0
  ELSE i * valores[i] + soma_ponderada(valores, i + 1)

\* the weighted sum over n * sum(valores) without the (n + 1) / n term
calcular_indice_gini_sem_correcao(inadimplentes_ordenados) ==
  LET valores == valores_de(inadimplentes_ordenados)
      n       == Len(valores)
  IN IF n = 0 THEN 0
     ELSE QuantizeRatio(2 * soma_ponderada(valores, 1) - n * SumSeq(valores),
                        n * SumSeq(valores), 3)

\* (2 * sum(index[i] * valores[i])) / (n * sum(valores)) - (n + 1) / n, in thousandths;
\* the caller passes the debtors in descending order of debt
calcular_indice_gini(inadimplentes_ordenados) ==
  LET valores == valores_de(inadimplentes_ordenados)
      n       == Len(valores)
  IN IF n = 0 THEN 0
     ELSE QuantizeRatio(2 * soma_ponderada(valores, 1) - (n + 1) * SumSeq(valores),
                        n * SumSeq(valores), 3)

\* the concentration with the largest debt alone in the place of the three largest
analisar_concentracao_dividas_so_a_maior(objs) ==
  LET ordenados   == ordenar_por_valor(objs)
      valor_total == SumSeq(valores_de(objs))
      top_3_valor == SumSeq(valores_de(SubSeq(ordenados, 1, 1)))
  IN [concentracao_top3   |-> QuantizeRatio(top_3_valor, valor_total, 3),
      valor_top_3         |-> top_3_valor,
      indice_concentracao |-> calcular_indice_gini(ordenados)]

analisar_concentracao_dividas(objs) ==
  LET ordenados   == ordenar_por_valor(objs)
      valor_total == SumSeq(valores_de(objs))
      top_3_valor == SumSeq(valores_de(SubSeq(ordenados, 1, Min2(3, Len(ordenados)))))
  IN [concentracao_top3   |-> QuantizeRatio(top_3_valor, valor_total, 3),
      valor_top_3         |-> top_3_valor,
      indice_concentracao |-> calcular_indice_gini(ordenados)]

\* one recovery rate for every status, in hundredths
taxa_unica(status) == 50

\* taxas_recuperacao.get(inad.status, Decimal('0.50')), in hundredths
taxas_recuperacao(status) ==
  CASE status = "CONFISSAO_DIVIDA" -> 70
    [] status = "EM_ATRASO"        -> 60
    [] status = "NEGOCIACAO"       -> 80
    [] status = "ACORDO"           -> 90
    [] status = "JURIDICO"         -> 40
    [] OTHER                       -> 50

\* amounts in centavos, rates in tenths of a percent; the conservative sum is exact in
\* thousandths of a real (debt * rate * 0.7) before it is quantised
calcular_potencial_recuperacao(objs) ==
  LET valor_total == SumSeq(valores_de(objs))
      otimista    == SumSeq([i \in 1..Len(objs) |->
                              objs[i].valor_divida * taxas_recuperacao(objs[i].status)])
      conservadora_milesimos ==
                     SumSeq([i \in 1..Len(objs) |->
                              objs[i].valor_divida * taxas_recuperacao(objs[i].status) * 7])
  IN [cenario_otimista              |-> otimista,
      cenario_conservador           |-> QuantizeRatio(conservadora_milesimos, 10, 0),
      taxa_recuperacao_otimista     |-> QuantizeRatio(otimista, valor_total * 100, 3),
      taxa_recuperacao_conservadora |->
        QuantizeRatio(conservadora_milesimos \div 10, valor_total * 100, 3),
      valor_irrecuperavel_estimado  |->
        QuantizeRatio(valor_total * 1000 - conservadora_milesimos, 10, 0)]

calcular_impacto_financeiro(objs) ==
  [valor_total_inadimplencia |-> SumSeq(valores_de(objs)),
   numero_inadimplentes      |-> Len(objs),
   potencial_recuperacao     |-> calcular_potencial_recuperacao(objs)]

calcular_metricas_inadimplencia(objs) ==
  [valor_total_inadimplencia  |-> SumSeq(valores_de(objs)),
   numero_total_inadimplentes |-> Len(objs)]

\* DelinquencyAnalyzer.analisar: every exception leaves as a CalculationError
DelinquencyAnalyzer_analisar(inads) ==
  IF Len(inads) = 0
  THEN Raised(CalculationError("analise_inadimplencia",
                InsufficientDataError("analise_inadimplencia", 1, 0)))
  ELSE LET conv == converter_inadimplentes(inads)
       IN IF conv.status # "ok"
          THEN Raised(CalculationError("analise_inadimplencia", conv.erro))
          ELSE [status                   |-> "ok",
                inadimplentes_analisados |-> conv.objs,
                ranking_por_valor        |-> gerar_ranking_por_valor(conv.objs),
                concentracao_dividas     |-> analisar_concentracao_dividas(conv.objs),
                impacto_financeiro       |-> calcular_impacto_financeiro(conv.objs),
                metricas_gerais          |-> calcular_metricas_inadimplencia(conv.objs),
                total_inadimplentes      |-> Len(conv.objs)]

----------------------------------------------------------------------------
\* analyzers/cashflow_analyzer.py

\* str.lower() on the month labels of the model
mes_lower(mes) ==
  CASE mes = "Maio"    -> "maio"
    [] mes = "Junho"   -> "junho"
    [] mes = "JULHO"   -> "julho"
    [] mes = "Janeiro" -> "janeiro"
    [] mes = "Mês 13"  -> "mês 13"
    [] OTHER           -> mes

\* self.meses_ordem.index(mes_lower), the abbreviations, and 0 for any other label
obter_indice_mes(mes) ==
  LET m == mes_lower(mes)
  IN CASE m = "janeiro"   -> 0
       [] m = "fevereiro" -> 1
       [] m = "março"     -> 2
       [] m = "abril"     -> 3
       [] m = "maio"      -> 4
       [] m = "junho"     -> 5
       [] m = "julho"     -> 6
       [] m = "agosto"    -> 7
       [] m = "setembro"  -> 8
       [] m = "outubro"   -> 9
       [] m = "novembro"  -> 10
       [] m = "dezembro"  -> 11
       [] m = "mai"       -> 4
       [] m = "jun"       -> 5
       [] m = "jul"       -> 6
       [] m = "ago"       -> 7
       [] m = "set"       -> 8
       [] m = "out"       -> 9
       [] m = "nov"       -> 10
       [] m = "dez"       -> 11
       [] OTHER           -> 0

\* MovimentacaoFinanceira.validar_movimentacoes
MovimentacaoFinanceira_valida(credito, debito) == credito >= 0 /\ debito >= 0

\* one MovimentacaoFinanceira object built with the debit as it was given
converter_mov_sem_abs(mov, i) ==
  [entrada           |-> i,
   mes               |-> mov.mes,
   ano               |-> mov.ano,
   credito           |-> mov.credito,
   debito            |-> mov.debito,
   saldo_operacional |-> mov.saldo_operacional]

\* one MovimentacaoFinanceira object; entrada keeps the record's place in the input
converter_mov(mov, i) ==
  [entrada           |-> i,
   mes               |-> mov.mes,
   ano               |-> mov.ano,
   credito           |-> mov.credito,
   debito            |-> Abs(mov.debito),
   saldo_operacional |-> mov.saldo_operacional]

\* a key that puts the year ahead of the month
chave_ano_e_mes(objs) ==
  [i \in 1..Len(objs) |-> <<objs[i].ano, obter_indice_mes(objs[i].mes)>>]

\* key=lambda x: self._obter_indice_mes(x.mes)
chave_indice_mes(objs) == [i \in 1..Len(objs) |-> <<obter_indice_mes(objs[i].mes), 0>>]

\* sorted(movimentacoes_obj, key=lambda x: self._obter_indice_mes(x.mes))
ordenar_por_mes(objs) == SortedStable(objs, chave_indice_mes(objs), FALSE)

converter_movimentacoes(movs) ==
  IF \E i \in 1..Len(movs) :
       ~MovimentacaoFinanceira_valida(movs[i].credito, Abs(movs[i].debito))
  THEN Raised(CalculationError("conversao_movimentacao",
                               ValidationError("MovimentacaoFinanceira")))
  ELSE [status |-> "ok",
        objs   |-> ordenar_por_mes([i \in 1..Len(movs) |-> converter_mov(movs[i], i)])]

creditos_de(movs) == [i \in 1..Len(movs) |-> movs[i].credito]

debitos_de(movs) == [i \in 1..Len(movs) |-> movs[i].debito]

saldos_de(movs) == [i \in 1..Len(movs) |-> movs[i].saldo_operacional]

RECURSIVE Isqrt(_)
\* the integer square root
Isqrt(x) ==
  IF x < 2 THEN x
  ELSE LET s == 2 * Isqrt(x \div 4)
       IN IF (s + 1) * (s + 1) > x THEN s ELSE s + 1

\* n * sum(x^2) - sum(x)^2: n*(n-1) times the sample variance of the values
soma_quadrados_desvios(valores) ==
  Len(valores) * SumSeq([i \in 1..Len(valores) |-> valores[i] * valores[i]])
    - SumSeq(valores) * SumSeq(valores)

\* (k * S) \div D, computed without forming k * S
escalar_e_dividir(k, S, D) == k * (S \div D) + (k * (S % D)) \div D

\* statistics.stdev(valores) quantised to 0.01, in hundredths
stdev_centesimos(valores) ==
  LET n == Len(valores)
      S == soma_quadrados_desvios(valores)
      D == n * (n - 1)
      q == Isqrt(escalar_e_dividir(10000, S, D))
  IN IF (2 * q + 1) * (2 * q + 1) <= escalar_e_dividir(40000, S, D) THEN q + 1 ELSE q

\* _calcular_volatilidade_saldos
calcular_volatilidade_saldos(movs) ==
  IF Len(movs) < 2 THEN 0 ELSE stdev_centesimos(saldos_de(movs))

analisar_resumo_mensal(movs) ==
  [total_creditos    |-> SumSeq(creditos_de(movs)),
   total_debitos     |-> SumSeq(debitos_de(movs)),
   saldo_consolidado |-> SumSeq(saldos_de(movs)),
   meses_positivos   |-> Cardinality({i \in 1..Len(movs) : movs[i].saldo_operacional > 0}),
   meses_negativos   |-> Cardinality({i \in 1..Len(movs) : movs[i].saldo_operacional < 0}),
   volatilidade      |-> calcular_volatilidade_saldos(movs)]

MaxSeq(valores) == CHOOSE m \in {valores[i] : i \in 1..Len(valores)} :
                     \A i \in 1..Len(valores) : valores[i] <= m

\* numerator and denominator of the least-squares slope over x = 0..n-1
slope_num(valores) ==
  LET n == Len(valores)
  IN n * SumSeq([i \in 1..n |-> (i - 1) * valores[i]])
       - SumSeq([i \in 1..n |-> i - 1]) * SumSeq(valores)

slope_den(valores) ==
  LET n == Len(valores)
  IN n * SumSeq([i \in 1..n |-> (i - 1) * (i - 1)])
       - SumSeq([i \in 1..n |-> i - 1]) * SumSeq([i \in 1..n |-> i - 1])

\* how the confiabilidade computation of _calcular_tendencia_metrica ends:
\* volatilidade / max(valores) divides by zero when the largest value is 0, and with
\* a negative largest value 100 - volatilidade/max*100 exceeds 100, which the
\* TendenciaFinanceira validator rejects once it no longer rounds to 100.0
confiabilidade_falha(valores) ==
  LET n == Len(valores)
      m == MaxSeq(valores)
  IN IF m = 0 THEN "ZeroDivisionError"
     ELSE IF m < 0 /\ n > 1
               /\ soma_quadrados_desvios(valores) > (n * (n - 1) * m * m) \div 4000000
          THEN "ValidationError"
          ELSE "none"

\* confiabilidade of a trend that is returned, quantised to 0.1, in tenths:
\* max(50, 100 - stdev(valores) / max(valores) * 100); with a negative largest value
\* only the values that round to 100.0 get past the validator
confiabilidade_de(valores) ==
  LET n  == Len(valores)
      m  == MaxSeq(valores)
      S  == soma_quadrados_desvios(valores)
      Dm == n * (n - 1) * m * m
  IN IF n < 2 \/ m < 0 \/ S = 0 THEN 1000
     ELSE IF 4 * S >= Dm THEN 500
     ELSE LET pr  == LongDiv(S \div Dm, S % Dm, Dm, 6)
              q   == Isqrt(pr[1])
              up  == \/ pr[1] > q * q + q
                     \/ /\ pr[1] = q * q + q
                        /\ (4 * pr[2] > Dm \/ (4 * pr[2] = Dm /\ q % 2 = 1))
          IN 1000 - (IF up THEN q + 1 ELSE q)

calcular_tendencia_metrica(valores, nome_metrica) ==
  LET num   == slope_num(valores)
      den   == slope_den(valores)
      slope_zero == (den = 0)
      estavel == slope_zero \/ 10 * Abs(num) < den
      falha == confiabilidade_falha(valores)
  IN IF falha # "none"
     THEN Raised(BuiltinError(falha, nome_metrica))
     ELSE [status       |-> "ok",
           metrica      |-> nome_metrica,
           direcao      |-> IF estavel THEN "ESTAVEL"
                            ELSE IF num > 0 THEN "CRESCIMENTO" ELSE "DECLINIO",
           intensidade  |-> IF estavel THEN 200
                            ELSE Min2(1000, QuantizeRatio(100 * Abs(num), den, 1)),
           confiabilidade |-> confiabilidade_de(valores)]

analisar_tendencias(movs) ==
  <<calcular_tendencia_metrica(creditos_de(movs), "Créditos Mensais"),
    calcular_tendencia_metrica(debitos_de(movs), "Débitos Mensais"),
    calcular_tendencia_metrica(saldos_de(movs), "Saldo Operacional")>>

\* the three checks of _identificar_meses_criticos on one month
problemas_do_mes(mov, movs) ==
  (IF mov.saldo_operacional < 0 THEN <<"Saldo operacional negativo">> ELSE <<>>)
  \o (IF 2 * mov.debito > 3 * mov.credito
      THEN <<"Débitos muito superiores aos créditos">> ELSE <<>>)
  \o (IF 2 * Len(movs) * mov.credito < SumSeq(creditos_de(movs))
      THEN <<"Créditos muito abaixo da média">> ELSE <<>>)

\* the score without the 50 points of a negative balance
score_do_mes_sem_saldo(mov, movs) ==
  (IF 2 * mov.debito > 3 * mov.credito THEN 30 ELSE 0)
  + (IF 2 * Len(movs) * mov.credito < SumSeq(creditos_de(movs)) THEN 20 ELSE 0)

\* score_risco of one month, before the cap at 100
score_do_mes(mov, movs) ==
  (IF mov.saldo_operacional < 0 THEN 50 ELSE 0)
  + (IF 2 * mov.debito > 3 * mov.credito THEN 30 ELSE 0)
  + (IF 2 * Len(movs) * mov.credito < SumSeq(creditos_de(movs)) THEN 20 ELSE 0)

\* key=lambda x: x['score_risco']
chave_score_risco(meses) == [i \in 1..Len(meses) |-> <<meses[i].score_risco, 0>>]

\* sorted(meses_criticos, key=lambda x: x['score_risco'], reverse=True)
ordenar_por_score(meses) == SortedStable(meses, chave_score_risco(meses), TRUE)

identificar_meses_criticos(movs) ==
  LET criticos == SelectSeq([i \in 1..Len(movs) |->
                     [entrada                |-> movs[i].entrada,
                      periodo                |-> <<movs[i].mes, movs[i].ano>>,
                      saldo_operacional      |-> movs[i].saldo_operacional,
                      problemas_identificados |-> problemas_do_mes(movs[i], movs),
                      score_risco            |-> Min2(100, score_do_mes(movs[i], movs))]],
                   LAMBDA m : m.problemas_identificados # <<>>)
  IN ordenar_por_score(criticos)

RECURSIVE consecutivos_negativos(_, _, _)
\* the loop of _gerar_alertas_cashflow: the run of negative months so far, from record i
consecutivos_negativos(movs, i, seguidos) ==
  IF i > Len(movs) THEN <<>>
  ELSE LET agora == IF movs[i].saldo_operacional < 0 THEN seguidos + 1 ELSE 0
       IN IF agora >= 2
          THEN <<[tipo |-> "CRITICO", titulo |-> "Meses Consecutivos com Saldo Negativo",
                  meses |-> agora]>>
          ELSE consecutivos_negativos(movs, i + 1, agora)

\* the first alert of _gerar_alertas_cashflow
alerta_consecutivos(movs) == consecutivos_negativos(movs, 1, 0)

\* the second: float(volatilidade) > abs(float(media_saldos)) * 0.5
alerta_volatilidade(movs) ==
  IF 2 * Len(movs) * calcular_volatilidade_saldos(movs) > 100 * Abs(SumSeq(saldos_de(movs)))
  THEN <<[tipo |-> "ATENCAO", titulo |-> "Alta Volatilidade no Fluxo de Caixa", meses |-> 0]>>
  ELSE <<>>

gerar_alertas_cashflow(movs) == alerta_consecutivos(movs) \o alerta_volatilidade(movs)

\* _gerar_projecoes, as far as the debits go: the mean debit of the last three months,
\* quantised to 0.01 (in centavos), projected for each of the next three months
gerar_projecoes(movs) ==
  IF Len(movs) < 3
  THEN [erro |-> "Dados insuficientes para projeção"]
  ELSE [debito_projetado |->
          QuantizeRatio(SumSeq(debitos_de(SubSeq(movs, Len(movs) - 2, Len(movs)))), 3, 2)]

\* CashFlowAnalyzer.analisar: every exception leaves as a CalculationError
CashFlowAnalyzer_analisar(movs) ==
  IF Len(movs) < 2
  THEN Raised(CalculationError("analise_cashflow",
                InsufficientDataError("analise_cashflow", 2, Len(movs))))
  ELSE LET conv == converter_movimentacoes(movs)
       IN IF conv.status # "ok"
          THEN Raised(CalculationError("analise_cashflow", conv.erro))
          ELSE LET tendencias == analisar_tendencias(conv.objs)
                   falhas == {i \in 1..3 : tendencias[i].status # "ok"}
               IN IF falhas # {}
                  THEN Raised(CalculationError("analise_cashflow",
                         tendencias[CHOOSE i \in falhas : \A j \in falhas : i <= j].erro))
                  ELSE [status                   |-> "ok",
                        movimentacoes_analisadas |-> conv.objs,
                        resumo_mensal            |-> analisar_resumo_mensal(conv.objs),
                        tendencias               |-> tendencias,
                        meses_criticos           |-> identificar_meses_criticos(conv.objs),
                        projecoes                |-> gerar_projecoes(conv.objs),
                        alertas                  |-> gerar_alertas_cashflow(conv.objs)]

----------------------------------------------------------------------------
\* analyzers/kpi_analyzer.py

\* "saldo" in cls.__name__.lower(): the class name is 'KPIFinanceiro'
saldo_no_nome_da_classe == FALSE

\* KPIFinanceiro.validar_valor
KPIFinanceiro_valido(valor) == ~(valor < 0 /\ ~saldo_no_nome_da_classe)

\* nome.lower().replace(' ', '_') on the indicator names of the model
nome_normalizado(nome) ==
  CASE nome = "Taxa Inadimplência" -> "taxa_inadimplência"
    [] nome = "Receita Total"      -> "receita_total"
    [] nome = "Taxa Inadimplencia" -> "taxa_inadimplencia"
    [] nome = "Saldo Operacional"  -> "saldo_operacional"
    [] OTHER                       -> nome

\* nome.replace('_', ' ').title() on the indicator names of the model
nome_titulo(nome) ==
  CASE nome = "receita_total"         -> "Receita Total"
    [] nome = "taxa_inadimplencia"    -> "Taxa Inadimplencia"
    [] nome = "recebidos_atraso"      -> "Recebidos Atraso"
    [] nome = "saldo_projetado_final" -> "Saldo Projetado Final"
    [] nome = "saldo_projetado"       -> "Saldo Projetado"
    [] nome = "despesa_total"         -> "Despesa Total"
    [] nome = "saldo_operacional"     -> "Saldo Operacional"
    [] OTHER                          -> nome

\* palavra in kpi.nome.lower(), for the three words the code looks for
contem(nome, palavra) ==
  CASE palavra = "inadimplência" -> nome \in {"Taxa Inadimplência"}
    [] palavra = "receita"       -> nome \in {"Receita Total"}
    [] palavra = "saldo"         -> nome \in {"Saldo Operacional", "Saldo Projetado",
                                              "Saldo Projetado Final"}
    [] OTHER                     -> FALSE

Faixa(critico, atencao, bom) == [critico |-> critico, atencao |-> atencao, bom |-> bom]

\* self.thresholds_padrao.get(nome_normalizado, {})
thresholds_padrao(nome) ==
  CASE nome = "receita_total"      -> Faixa(10000000, 15000000, 20000000)
    [] nome = "taxa_inadimplencia" -> Faixa(50, 20, 10)
    [] nome = "saldo_operacional"  -> Faixa(0, 1000000, 2000000)
    [] nome = "saldo_projetado"    -> Faixa(0, 2000000, 4000000)
    [] nome = "despesa_total"      -> Faixa(20000000, 15000000, 10000000)
    [] nome = "recebidos_atraso"   -> Faixa(200, 100, 50)
    [] OTHER                       -> SemEntradas

kpis_invertidos == {"taxa_inadimplencia", "despesa_total", "recebidos_atraso"}

\* valor >= thresholds.get(k, float('inf'))
acima_de(valor, thresholds, k) == k \in DOMAIN thresholds /\ valor >= thresholds[k]

\* valor <= thresholds.get(k, 0)
abaixo_de(valor, thresholds, k) ==
  valor <= (IF k \in DOMAIN thresholds THEN thresholds[k] ELSE 0)

\* the classification with every indicator handled as one where larger is better
classificar_status_kpi_sem_inversao(nome_kpi, valor, thresholds) ==
  IF DOMAIN thresholds = {} THEN "BOM"
  ELSE IF abaixo_de(valor, thresholds, "critico") THEN "CRITICO"
       ELSE IF abaixo_de(valor, thresholds, "atencao") THEN "ATENCAO"
       ELSE IF abaixo_de(valor, thresholds, "bom") THEN "BOM"
       ELSE "EXCELENTE"

classificar_status_kpi(nome_kpi, valor, thresholds) ==
  IF DOMAIN thresholds = {} THEN "BOM"
  ELSE IF nome_kpi \in kpis_invertidos
       THEN IF acima_de(valor, thresholds, "critico") THEN "CRITICO"
            ELSE IF acima_de(valor, thresholds, "atencao") THEN "ATENCAO"
            ELSE IF acima_de(valor, thresholds, "bom") THEN "BOM"
            ELSE "EXCELENTE"
       ELSE IF abaixo_de(valor, thresholds, "critico") THEN "CRITICO"
            ELSE IF abaixo_de(valor, thresholds, "atencao") THEN "ATENCAO"
            ELSE IF abaixo_de(valor, thresholds, "bom") THEN "BOM"
            ELSE "EXCELENTE"

determinar_unidade_kpi(nome_kpi) ==
  IF nome_kpi \in {"receita_total", "saldo_operacional", "saldo_projetado", "despesa_total"}
  THEN "R$"
  ELSE IF nome_kpi \in {"taxa_inadimplencia", "recebidos_atraso"} THEN "%" ELSE "unidade"

\* self.configuracao.thresholds_kpi.get(nome_normalizado,
\*                                     self.thresholds_padrao.get(nome_normalizado, {}))
obter_thresholds(normalizado, configurados) ==
  IF normalizado \in DOMAIN configurados
  THEN configurados[normalizado]
  ELSE thresholds_padrao(normalizado)

\* the KPIFinanceiro object of one indicator; configurados is the caller's thresholds_kpi
analisar_kpi_individual(nome, valor, configurados) ==
  LET normalizado == nome_normalizado(nome)
      thresholds  == obter_thresholds(normalizado, configurados)
  IN [nome        |-> nome_titulo(nome),
      valor       |-> valor,
      unidade     |-> determinar_unidade_kpi(normalizado),
      status      |-> classificar_status_kpi(normalizado, valor, thresholds),
      observacoes |-> IF DOMAIN thresholds = {} THEN "Thresholds não configurados"
                      ELSE "classificado"]

pesos_status(status) ==
  CASE status = "CRITICO"   -> 0
    [] status = "ATENCAO"   -> 25
    [] status = "BOM"       -> 70
    [] status = "EXCELENTE" -> 100

\* Decimal(total_pontos) / Decimal(len(kpis)) quantised to 0.1, in tenths
calcular_score_saude_financeira(kpis) ==
  IF kpis = <<>> THEN 0
  ELSE QuantizeRatio(SumSeq([i \in 1..Len(kpis) |-> pesos_status(kpis[i].status)]),
                     Len(kpis), 1)

\* kpi_analise.status.value.lower(): the enum values carry their accents
status_value_lower(status) ==
  CASE status = "CRITICO"   -> "crítico"
    [] status = "ATENCAO"   -> "atenção"
    [] status = "BOM"       -> "bom"
    [] status = "EXCELENTE" -> "excelente"

\* the counters of resumo_status: one is incremented only when the lower-cased
\* status value is one of the keys critico, atencao, bom, excelente
resumo_status_de(kpis) ==
  [k \in {"critico", "atencao", "bom", "excelente"} |->
     Cardinality({i \in 1..Len(kpis) : status_value_lower(kpis[i].status) = k})]

\* KPIAnalyzer.analisar over dados_kpis, the (name, value) items in dict order
KPIAnalyzer_analisar(kpis_dados, configurados) ==
  IF \E i \in 1..Len(kpis_dados) : ~KPIFinanceiro_valido(kpis_dados[i].valor)
  THEN Raised(CalculationError("analise_kpis",
                CalculationError("analise_kpi", ValidationError("KPIFinanceiro"))))
  ELSE LET kpis == [i \in 1..Len(kpis_dados) |->
                      analisar_kpi_individual(kpis_dados[i].nome, kpis_dados[i].valor,
                                              configurados)]
       IN [status                 |-> "ok",
           kpis_analisados        |-> kpis,
           resumo_status          |-> resumo_status_de(kpis),
           score_saude_financeira |-> calcular_score_saude_financeira(kpis),
           kpis_criticos          |-> SelectSeq(kpis, LAMBDA k : k.status = "CRITICO"),
           total_kpis             |-> Len(kpis)]

----------------------------------------------------------------------------
\* analyzers/trend_analyzer.py

\* TrendAnalyzer.min_periodos_tendencia
min_periodos_tendencia == 3

\* _converter_series_temporais for tipo_analise 'fluxo_caixa': the input order is kept
converter_series_temporais(dados) ==
  [i \in 1..Len(dados) |->
     [periodo         |-> i,
      mes             |-> dados[i].mes,
      ano             |-> dados[i].ano,
      valor_principal |-> dados[i].saldo_operacional,
      credito         |-> dados[i].credito,
      debito          |-> dados[i].debito]]

\* the least-squares slope over x = 1..n is the slope over x = 0..n-1
identificar_tendencia_geral(series) ==
  LET valores == [i \in 1..Len(series) |-> series[i].valor_principal]
      num     == slope_num(valores)
      den     == slope_den(valores)
      estavel == den = 0 \/ Abs(num) < 100 * den
  IN [direcao       |-> IF estavel THEN "ESTAVEL"
                        ELSE IF num > 0 THEN "CRESCIMENTO" ELSE "DECLINIO",
      intensidade   |-> IF estavel THEN "BAIXA"
                        ELSE IF Abs(num) > 1000 * den THEN "ALTA" ELSE "MODERADA",
      inclinacao    |-> IF den = 0 THEN 0 ELSE QuantizeRatio(num, den, 2),
      valor_inicial |-> valores[1],
      valor_final   |-> valores[Len(valores)]]

\* TrendAnalyzer.analisar: every exception leaves as a CalculationError
TrendAnalyzer_analisar(dados_temporais) ==
  IF Len(dados_temporais) < min_periodos_tendencia
  THEN Raised(CalculationError("analise_tendencias",
                InsufficientDataError("analise_tendencias", min_periodos_tendencia,
                                      Len(dados_temporais))))
  ELSE LET series == converter_series_temporais(dados_temporais)
       IN [status              |-> "ok",
           series_analisadas   |-> series,
           tendencia_geral     |-> identificar_tendencia_geral(series),
           periodos_analisados |-> Len(series),
           tipo_analise        |-> "fluxo_caixa"]

----------------------------------------------------------------------------
\* insights/insight_engine.py

\* score_confianca of an InsightFinanceiro that has not been given one (None)
SemScore == -1

\* an InsightFinanceiro as a rule creates it; titulo is the fixed part of the title,
\* alvo the indicator, month or debtor it names, valor_impacto is in centavos
Insight(tipo, titulo, alvo, prioridade, valor_impacto) ==
  [tipo |-> tipo, titulo |-> titulo, alvo |-> alvo, prioridade |-> prioridade,
   valor_impacto |-> valor_impacto, score_confianca |-> SemScore]

RECURSIVE insights_kpis_criticos(_, _)
\* the loop over kpis_criticos, from position i on
insights_kpis_criticos(kpis_criticos, i) ==
  IF i > Len(kpis_criticos) THEN <<>>
  ELSE LET kpi == kpis_criticos[i]
       IN (IF contem(kpi.nome, "inadimplência")
           THEN <<Insight("KPI", "Taxa de Inadimplência Crítica", kpi.nome, "CRITICA",
                          kpi.valor * 100000 * 100)>>
           ELSE IF contem(kpi.nome, "receita")
           THEN <<Insight("KPI", "Receita Abaixo do Esperado", kpi.nome, "ALTA",
                          kpi.valor * 100)>>
           ELSE <<>>)
          \o insights_kpis_criticos(kpis_criticos, i + 1)

gerar_insights_kpis(analise) ==
  LET kpis_criticos == Get(analise, "kpis_criticos", <<>>)
      score_saude   == Get(analise, "score_saude_financeira", 0)
  IN (IF score_saude < 300
      THEN <<Insight("KPI", "Situação Financeira Crítica Detectada", "", "CRITICA",
                     score_saude * 100 * 100)>>
      ELSE <<>>)
     \o insights_kpis_criticos(kpis_criticos, 1)

\* "Saldo" in tendencia.metrica
metrica_contem_saldo(metrica) == metrica \in {"Saldo Operacional", "Saldo"}

RECURSIVE insights_tendencias(_, _)
\* the loop over the cash-flow trends, from position i on
insights_tendencias(tendencias, i) ==
  IF i > Len(tendencias) THEN <<>>
  ELSE LET tendencia == tendencias[i]
       IN (IF tendencia.direcao = "DECLINIO" /\ tendencia.intensidade > 400
              /\ metrica_contem_saldo(tendencia.metrica)
           THEN <<Insight("TENDENCIA", "Tendência de Declínio", tendencia.metrica, "ALTA",
                          tendencia.intensidade * 1000 * 100)>>
           ELSE <<>>)
          \o insights_tendencias(tendencias, i + 1)

gerar_insights_cashflow(analise) ==
  LET meses_criticos == Get(analise, "meses_criticos", <<>>)
      tendencias     == Get(analise, "tendencias", <<>>)
      resumo         == Get(analise, "resumo_mensal", SemEntradas)
  IN (IF meses_criticos # <<>>
      THEN <<Insight("FLUXO_CAIXA", "Mês Crítico Identificado", meses_criticos[1].periodo[1],
                     IF meses_criticos[1].score_risco >= 70 THEN "CRITICA" ELSE "ALTA",
                     Abs(meses_criticos[1].saldo_operacional) * 100)>>
      ELSE <<>>)
     \o insights_tendencias(tendencias, 1)
     \o (IF Get(resumo, "volatilidade", 0) > 500000 * 100
         THEN <<Insight("FLUXO_CAIXA", "Alta Volatilidade no Fluxo de Caixa Detectada", "",
                        "MEDIA", resumo.volatilidade)>>
         ELSE <<>>)

\* the test with the bound itself counted as high
concentracao_alta_inclusiva(concentracao_top3) == concentracao_top3 >= 600

\* concentracao_top3 > 60, the share in tenths of a percent
concentracao_alta(concentracao_top3) == concentracao_top3 > 600

gerar_insights_inadimplencia(analise) ==
  LET ranking      == Get(analise, "ranking_por_valor", <<>>)
      concentracao == Get(analise, "concentracao_dividas", SemEntradas)
      recuperacao  == Get(Get(analise, "impacto_financeiro", SemEntradas),
                          "potencial_recuperacao", SemEntradas)
  IN (IF concentracao_alta(Get(concentracao, "concentracao_top3", 0))
      THEN <<Insight("INADIMPLENCIA", "Alta Concentração de Inadimplência", "", "CRITICA",
                     Get(concentracao, "valor_top_3", 0) * 100)>>
      ELSE <<>>)
     \o (IF DOMAIN recuperacao # {}
            /\ Get(recuperacao, "taxa_recuperacao_conservadora", 0) < 500
         THEN <<Insight("INADIMPLENCIA", "Baixo Potencial de Recuperação", "", "ALTA",
                        Get(recuperacao, "valor_irrecuperavel_estimado", 0))>>
         ELSE <<>>)
     \o (IF ranking # <<>> /\ ranking[1].participacao_percentual > 300
         THEN <<Insight("INADIMPLENCIA", "Inadimplente Dominante", ranking[1].nome,
                        "CRITICA", ranking[1].valor_divida * 100)>>
         ELSE <<>>)

\* cross rules of an engine that turns a declining generic trend into an insight
gerar_insights_cruzados_com_tendencia_geral(dados) ==
  IF "analise_tendencias" \in DOMAIN dados
  THEN <<Insight("TENDENCIA", "Tendência de Declínio", "tendencia_geral", "ALTA", 0)>>
  ELSE <<>>

gerar_insights_cruzados(dados) ==
  (IF {"analise_inadimplencia", "analise_cashflow"} \subseteq DOMAIN dados
   THEN LET valor_inadimplencia ==
              Get(Get(dados["analise_inadimplencia"], "metricas_gerais", SemEntradas),
                  "valor_total_inadimplencia", 0)
            meses_negativos ==
              Get(Get(dados["analise_cashflow"], "resumo_mensal", SemEntradas),
                  "meses_negativos", 0)
        IN IF valor_inadimplencia > 100000 /\ meses_negativos > 1
           THEN <<Insight("OPERACIONAL", "Correlação Crítica: Inadimplência vs Fluxo de Caixa",
                          "", "CRITICA", valor_inadimplencia * 100)>>
           ELSE <<>>
   ELSE <<>>)
  \o
  (IF {"analise_kpis", "analise_cashflow"} \subseteq DOMAIN dados
   THEN LET score_saude == Get(dados["analise_kpis"], "score_saude_financeira", 0)
            saldo_consolidado ==
              Get(Get(dados["analise_cashflow"], "resumo_mensal", SemEntradas),
                  "saldo_consolidado", 0)
        IN IF score_saude < 400 /\ saldo_consolidado < 1000000
           THEN <<Insight("OPERACIONAL", "Situação Operacional Comprometida", "", "CRITICA",
                          Abs(saldo_consolidado - 2000000) * 100)>>
           ELSE <<>>
   ELSE <<>>)

\* ordem_prioridade.get(x.prioridade, 0)
ordem_prioridade(prioridade) ==
  CASE prioridade = "CRITICA" -> 4
    [] prioridade = "ALTA"    -> 3
    [] prioridade = "MEDIA"   -> 2
    [] prioridade = "BAIXA"   -> 1
    [] OTHER                  -> 0

\* key=lambda x: (ordem_prioridade.get(x.prioridade, 0), float(x.valor_impacto or 0))
chave_insight(lista) ==
  [i \in 1..Len(lista) |-> <<ordem_prioridade(lista[i].prioridade), lista[i].valor_impacto>>]

\* the sort with its key reduced to the priority rank
priorizar_insights_so_prioridade(insights_a_ordenar) ==
  SortedStable(insights_a_ordenar,
               [i \in 1..Len(insights_a_ordenar) |->
                  <<ordem_prioridade(insights_a_ordenar[i].prioridade), 0>>],
               TRUE)

\* _priorizar_insights: sorted() returns a new list and keeps the order of equal keys
priorizar_insights(insights_a_ordenar) ==
  SortedStable(insights_a_ordenar, chave_insight(insights_a_ordenar), TRUE)

\* the adjustment for the priority left out
ajuste_prioridade_nulo(insight) == 0

\* if insight.prioridade == InsightPriority.CRITICA: score_base += 5
ajuste_prioridade(insight) == IF insight.prioridade = "CRITICA" THEN 5 ELSE 0

calcular_score_confianca(insight, dados) ==
  LET num_movimentacoes ==
        Len(Get(Get(dados, "analise_cashflow", SemEntradas),
                "movimentacoes_analisadas", <<>>))
      num_inadimplentes ==
        Len(Get(Get(dados, "analise_inadimplencia", SemEntradas),
                "inadimplentes_analisados", <<>>))
      por_tipo ==
        CASE insight.tipo = "KPI"           -> 20
          [] insight.tipo = "FLUXO_CAIXA"   -> IF num_movimentacoes >= 6 THEN 15
                                               ELSE IF num_movimentacoes >= 3 THEN 10 ELSE 0
          [] insight.tipo = "INADIMPLENCIA" -> IF num_inadimplentes >= 5 THEN 10 ELSE 0
          [] OTHER                          -> 0
  IN Min2(100, Max2(0, 70 + por_tipo + ajuste_prioridade(insight)))

\* the insights the rules append to self.insights_gerados, in order of creation
regras_insights(dados) ==
  (IF "analise_kpis" \in DOMAIN dados
   THEN gerar_insights_kpis(dados["analise_kpis"]) ELSE <<>>)
  \o (IF "analise_cashflow" \in DOMAIN dados
      THEN gerar_insights_cashflow(dados["analise_cashflow"]) ELSE <<>>)
  \o (IF "analise_inadimplencia" \in DOMAIN dados
      THEN gerar_insights_inadimplencia(dados["analise_inadimplencia"]) ELSE <<>>)
  \o (IF Cardinality(DOMAIN dados) > 1
      THEN gerar_insights_cruzados(dados) ELSE <<>>)

\* the score assignment of gerar_insights_completos on every insight of a list
com_score_confianca(lista, dados) ==
  [i \in 1..Len(lista) |->
     [lista[i] EXCEPT !.score_confianca = calcular_score_confianca(lista[i], dados)]]

\* InsightEngine.gerar_insights_completos: the returned list
gerar_insights_completos(dados) ==
  com_score_confianca(priorizar_insights(regras_insights(dados)), dados)

----------------------------------------------------------------------------
\* run_shopping_analysis.py and main.py: executar_analise_completa

\* resultados[chave] = valor
Guardar(mapa, chave, valor) ==
  [k \in DOMAIN mapa \cup {chave} |-> IF k = chave THEN valor ELSE mapa[k]]

\* the stages in program order; main.py has no trend stage
Etapas(qual) ==
  IF qual = "main"
  THEN <<"kpis", "cashflow", "inadimplencia", "insights">>
  ELSE <<"kpis", "cashflow", "inadimplencia", "tendencias", "insights">>

\* the stage that follows etapa, "fim" after the last
proxima_etapa(qual, etapa) ==
  LET i == CHOOSE k \in 1..Len(Etapas(qual)) : Etapas(qual)[k] = etapa
  IN IF i = Len(Etapas(qual)) THEN "fim" ELSE Etapas(qual)[i + 1]

\* an except clause that would swallow the exception and go on
apos_falha_continua(qual, etapa) == proxima_etapa(qual, etapa)

\* where control goes when a stage raises: the except clause prints and re-raises
apos_falha(qual, etapa) == "fim"

\* dados['kpis']['receita_total'] is there to be read
tem_receita_total(kpis_dados) ==
  \E i \in 1..Len(kpis_dados) : kpis_dados[i].nome = "receita_total"

----------------------------------------------------------------------------
\* Inputs

\* a raw debtor record; tem_dias says whether the key dias_atraso is present
Devedor(nome, valor, tem_dias, dias, status) ==
  [nome |-> nome, valor_divida |-> valor, tem_dias |-> tem_dias,
   dias_atraso |-> dias, status |-> status]

\* debts and delays on both sides of every risk threshold
ValoresGrade == {999, 1000, 4999, 5000, 19999, 20000, 49999, 50000}

DiasGrade == {0, 14, 15, 29, 30, 59, 60, 89, 90}

\* the ledger bound
MaxInadimplentes == 3

\* debts of the ledgers: the four of the sample data set, a negligible one, an invalid one
ValoresLedger == {0, 1, 2433, 11667, 35000, 58980}

RECURSIVE SeqsUpTo(_, _)
\* all sequences over S of length at most n
SeqsUpTo(S, n) ==
  IF n = 0 THEN {<<>>}
  ELSE LET shorter == SeqsUpTo(S, n - 1)
       IN shorter \cup {Append(s, x) : s \in {t \in shorter : Len(t) = n - 1}, x \in S}

\* the tenants of the sample data set
NomeDevedor(i) ==
  CASE i = 1 -> "Patroni Pizza"
    [] i = 2 -> "Claus Sport"
    [] i = 3 -> "Aline Sobrino Boutique"
    [] i = 4 -> "Ivone Store"
    [] OTHER -> "Outro"

\* give the records of a ledger their names, by position in the input
Nomear(valores) ==
  [i \in 1..Len(valores) |->
     Devedor(NomeDevedor(i), valores[i], TRUE, 10, "confissao_divida")]

\* a raw monthly record
Movimento(mes, tipo) ==
  [mes |-> mes, ano |-> 2025, credito |-> tipo[1], debito |-> tipo[2],
   saldo_operacional |-> tipo[3]]

\* month labels: capitalised, upper case, an abbreviation
MesesEntrada == {"Maio", "JULHO", "jun"}

\* <<credit, debit, operating balance>>: a healthy month, a negative balance alone,
\* one with debits above 1.5 times the credits, a weak month, a debit given with a
\* minus sign, a balance of zero, and a month with nothing credited
TiposMovimento ==
  {<<10, 8, 2>>, <<10, 12, -2>>, <<10, 16, -6>>, <<2, 4, -3>>, <<10, -16, -6>>,
   <<10, 10, 0>>, <<0, 1, -1>>}

\* the bound on the number of monthly records
MaxMeses == 3

\* an item of dados['kpis']
Indicador(nome, valor) == [nome |-> nome, valor |-> valor]

\* indicator maps: the sample data set, a healthy centre, one in a critical state, a
\* negative balance, a map without receita_total and an empty one
ConjuntosKPIs ==
  {<<Indicador("receita_total", 18860754), Indicador("taxa_inadimplencia", 91),
     Indicador("recebidos_atraso", 234), Indicador("saldo_projetado_final", 4140012),
     Indicador("despesa_total", 16004480), Indicador("saldo_operacional", 2856274)>>,
   <<Indicador("receita_total", 21000000), Indicador("taxa_inadimplencia", 5)>>,
   <<Indicador("receita_total", 9000000), Indicador("taxa_inadimplencia", 60),
     Indicador("saldo_operacional", 500000)>>,
   <<Indicador("receita_total", 9000000), Indicador("saldo_operacional", -5)>>,
   <<Indicador("taxa_inadimplencia", 60), Indicador("saldo_operacional", 0)>>,
   <<>>}

\* the values an indicator is given: they straddle the default bounds of its name
ValoresKPI(nome) ==
  CASE nome \in {"receita_total", "Receita Total"} ->
         {9000000, 10000000, 15000000, 20000000, 21000000}
    [] nome \in {"taxa_inadimplencia", "Taxa Inadimplencia"} -> {5, 10, 20, 50, 60}
    [] nome = "saldo_operacional" -> {-5, 0, 1000000, 2000000, 3000000}
    [] nome = "saldo_projetado_final" -> {-5, 4140012}
    [] OTHER -> {91}

\* keys of dados['kpis']: default keys, keys that normalise to a default key, and keys
\* the default table has no entry for
NomesKPI ==
  {"receita_total", "Receita Total", "taxa_inadimplencia", "Taxa Inadimplencia",
   "saldo_operacional", "saldo_projetado_final", "Taxa Inadimplência"}

IndicadoresKPI ==
  UNION {{Indicador(nome, valor) : valor \in ValoresKPI(nome)} : nome \in NomesKPI}

\* the indicator maps of up to MaxKPIs items: the keys of a dict are distinct
MaxKPIs == 2

MapasKPIs ==
  {m \in SeqsUpTo(IndicadoresKPI, MaxKPIs) :
     \A i \in 1..Len(m) : \A j \in 1..Len(m) : i # j => m[i].nome # m[j].nome}

\* ConfiguracaoAnalise.thresholds_kpi: none, a band that replaces a default one, a band
\* for a name without default, an entry that holds no bound, a band of one bound
ConfiguracoesKPI ==
  {SemEntradas,
   "receita_total" :> Faixa(15000000, 20000000, 21000000),
   ("taxa_inadimplencia" :> Faixa(20, 10, 5))
      @@ ("saldo_projetado_final" :> Faixa(0, 2000000, 4000000)),
   "receita_total" :> SemEntradas,
   "saldo_operacional" :> [critico |-> 1000000]}

\* the records and the ledgers executar_analise_completa is run on
MovimentosPipeline ==
  {Movimento("Maio", <<10, 8, 2>>), Movimento("jun", <<10, 16, -6>>),
   Movimento("JULHO", <<2, 4, -3>>)}

DevedoresPipeline ==
  {Devedor("Patroni Pizza", 58980, TRUE, 75, "confissao_divida"),
   Devedor("Ivone Store", 2433, FALSE, 0, "juridico"),
   Devedor("Claus Sport", 0, TRUE, 60, "acordo")}

\* the bounds on the inputs of the pipeline
MaxMesesPipeline == 3

MaxDevedoresPipeline == 2

----------------------------------------------------------------------------
\* Actions

\* a caller invokes DelinquencyAnalyzer().analisar(inadimplentes)
DelinquencyAnalisar ==
  /\ pc = "inativo"
  /\ analise_inadimplencia.status = "none"
  /\ analise_inadimplencia' = DelinquencyAnalyzer_analisar(inadimplentes)
  /\ UNCHANGED <<inadimplentes, varsCashflow, varsKPIs, analise_tendencias, varsInsights,
                 varsPipeline>>

\* the caller's list as a converter that sorted it in place would leave it
lista_ordenada_no_lugar(movs) == ordenar_por_mes(movs)

\* the caller's list of records after _converter_movimentacoes: the loop reads each
\* dict, builds a new MovimentacaoFinanceira from it, and sorted() returns a new list
lista_apos_converter(movs) == movs

\* a caller invokes CashFlowAnalyzer().analisar(movimentacoes)
CashFlowAnalisar ==
  /\ pc = "inativo"
  /\ analise_cashflow.status = "none"
  /\ analise_cashflow' = CashFlowAnalyzer_analisar(movimentacoes)
  /\ movimentacoes' = lista_apos_converter(movimentacoes)
  /\ UNCHANGED <<varsInadimplencia, varsKPIs, analise_tendencias, varsInsights,
                 varsPipeline>>

\* a caller invokes analisar(dados_kpis) on a KPIAnalyzer built with its configuration
KPIAnalisar ==
  /\ pc = "inativo"
  /\ analise_kpis.status = "none"
  /\ analise_kpis' = KPIAnalyzer_analisar(dados_kpis, thresholds_kpi)
  /\ UNCHANGED <<varsInadimplencia, varsCashflow, dados_kpis, thresholds_kpi,
                 analise_tendencias,
                 varsInsights, varsPipeline>>

\* a caller invokes TrendAnalyzer().analisar(movimentacoes, 'fluxo_caixa')
TrendAnalisar ==
  /\ pc = "inativo"
  /\ analise_tendencias.status = "none"
  /\ analise_tendencias' = TrendAnalyzer_analisar(movimentacoes)
  /\ UNCHANGED <<varsInadimplencia, varsCashflow, varsKPIs, varsInsights, varsPipeline>>

\* the caller's map as an engine that stored its list in it would leave it
mapa_com_insights(dados) == Guardar(dados, "insights", gerar_insights_completos(dados))

\* the caller's map after gerar_insights_completos: the rules and the score take values
\* out of dados_analise with [] and .get() and assign to none of its entries
mapa_apos_insights(dados) == dados

\* self.insights_gerados after a clear() that removed nothing
apos_clear_sem_efeito(lista) == lista

\* self.insights_gerados after self.insights_gerados.clear()
apos_clear(lista) == <<>>

\* self.insights_gerados once the rules of a call have appended to it: the call clears
\* the list the instance kept from the call before and the rules append to it
lista_da_instancia(gerados, dados) == apos_clear(gerados) \o regras_insights(dados)

\* the list a call on an instance that holds gerados returns for dados
lista_devolvida(gerados, dados) ==
  com_score_confianca(priorizar_insights(lista_da_instancia(gerados, dados)), dados)

\* what the caller of a call keeps: its argument and the list it was given, which is a
\* new list (sorted) of objects no later call assigns to
Devolucao(dados, lista) == [argumento |-> dados, lista |-> lista]

\* a caller invokes gerar_insights_completos(dados_analise) on an engine: the list of
\* the instance is cleared and refilled, and the returned list shares its objects
GerarInsights ==
  /\ pc = "inativo"
  /\ insights.status = "none"
  /\ insights_gerados' = com_score_confianca(regras_insights(dados_analise), dados_analise)
  /\ insights' = [status |-> "ok", lista |-> gerar_insights_completos(dados_analise)]
  /\ listas_devolvidas' =
       Append(listas_devolvidas,
              Devolucao(dados_analise, gerar_insights_completos(dados_analise)))
  /\ dados_analise' = mapa_apos_insights(dados_analise)
  /\ UNCHANGED <<varsInadimplencia, varsCashflow, varsKPIs, analise_tendencias,
                 varsPipeline>>

\* a stage of executar_analise_completa ends: its result is stored and the next stage
\* is due, or its exception leaves the function
FimDaEtapa(etapa, chave, r) ==
  IF r.status = "ok"
  THEN /\ resultados' = Guardar(resultados, chave, r)
       /\ pc' = proxima_etapa(entrada, etapa)
       /\ retorno' = retorno
  ELSE /\ resultados' = resultados
       /\ pc' = apos_falha(entrada, etapa)
       /\ retorno' = Raised(r.erro)

\* stage 1: kpi_analyzer.analisar(dados['kpis'])
EtapaKPIs ==
  /\ pc = "kpis"
  /\ chamadas' = Append(chamadas, "KPIAnalyzer")
  /\ FimDaEtapa("kpis", "analise_kpis", KPIAnalyzer_analisar(dados_kpis, SemEntradas))
  /\ UNCHANGED <<varsInadimplencia, varsCashflow, varsKPIs, analise_tendencias,
                 varsInsights, entrada>>

\* stage 2: cashflow_analyzer.analisar(dados['fluxo_caixa'])
EtapaCashflow ==
  /\ pc = "cashflow"
  /\ chamadas' = Append(chamadas, "CashFlowAnalyzer")
  /\ FimDaEtapa("cashflow", "analise_cashflow", CashFlowAnalyzer_analisar(movimentacoes))
  /\ UNCHANGED <<varsInadimplencia, varsCashflow, varsKPIs, analise_tendencias,
                 varsInsights, entrada>>

\* stage 3: receita_total is read from dados['kpis'] (a KeyError when it is not there),
\* then delinquency_analyzer.analisar(dados['inadimplentes'], receita_total)
EtapaInadimplencia ==
  /\ pc = "inadimplencia"
  /\ IF tem_receita_total(dados_kpis)
     THEN /\ chamadas' = Append(chamadas, "DelinquencyAnalyzer")
          /\ FimDaEtapa("inadimplencia", "analise_inadimplencia",
                        DelinquencyAnalyzer_analisar(inadimplentes))
     ELSE /\ chamadas' = chamadas
          /\ FimDaEtapa("inadimplencia", "analise_inadimplencia",
                        Raised(BuiltinError("KeyError", "receita_total")))
  /\ UNCHANGED <<varsInadimplencia, varsCashflow, varsKPIs, analise_tendencias,
                 varsInsights, entrada>>

\* stage 4 of the script: trend_analyzer.analisar(dados['fluxo_caixa'], 'fluxo_caixa')
EtapaTendencias ==
  /\ pc = "tendencias"
  /\ chamadas' = Append(chamadas, "TrendAnalyzer")
  /\ FimDaEtapa("tendencias", "analise_tendencias", TrendAnalyzer_analisar(movimentacoes))
  /\ UNCHANGED <<varsInadimplencia, varsCashflow, varsKPIs, analise_tendencias,
                 varsInsights, entrada>>

\* the last stage: insight_engine.gerar_insights_completos(resultados), whose list is
\* stored under 'insights', and the map is returned
EtapaInsights ==
  /\ pc = "insights"
  /\ chamadas' = Append(chamadas, "InsightEngine")
  /\ resultados' = Guardar(resultados, "insights", gerar_insights_completos(resultados))
  /\ retorno' = [status |-> "ok", resultados |-> resultados']
  /\ pc' = proxima_etapa(entrada, "insights")
  /\ UNCHANGED <<varsInadimplencia, varsCashflow, varsKPIs, analise_tendencias,
                 varsInsights, entrada>>

----------------------------------------------------------------------------
\* Specifications

\* nothing handed to the cash-flow analyzer
SemCashflow == movimentacoes = <<>> /\ analise_cashflow = NaoChamado

\* nothing handed to the delinquency analyzer
SemInadimplencia == inadimplentes = <<>> /\ analise_inadimplencia = NaoChamado

SemKPIs == dados_kpis = <<>> /\ thresholds_kpi = SemEntradas /\ analise_kpis = NaoChamado

SemTendencias == analise_tendencias = NaoChamado

SemInsights ==
  /\ dados_analise = SemEntradas /\ insights_gerados = <<>> /\ insights = NaoChamado
  /\ listas_devolvidas = <<>>

\* executar_analise_completa is not running
SemPipeline ==
  /\ entrada = "nenhuma"
  /\ pc = "inativo"
  /\ resultados = SemEntradas
  /\ chamadas = <<>>
  /\ retorno = NaoChamado

\* two debtors drawn from the threshold grid, the delay given or left out
InitRisco ==
  /\ inadimplentes \in
       {<<Devedor("Patroni Pizza", v1, t1, d1, "em_atraso"),
          Devedor("Claus Sport", v2, TRUE, d2, "em_atraso")>> :
          v1 \in ValoresGrade, v2 \in ValoresGrade, d1 \in DiasGrade, d2 \in DiasGrade,
          t1 \in BOOLEAN}
  /\ analise_inadimplencia = NaoChamado
  /\ SemCashflow /\ SemKPIs /\ SemTendencias /\ SemInsights /\ SemPipeline

NextRisco == DelinquencyAnalisar

SpecRisco == InitRisco /\ [][NextRisco]_vars

\* the values of inad['status'] that status_map knows
StatusEntrada == {"confissao_divida", "em_atraso", "negociacao", "acordo", "juridico"}

\* ledgers of two debtors in every pair of statuses
LedgersPorStatus ==
  {<<Devedor(NomeDevedor(1), 11667, TRUE, 10, s1), Devedor(NomeDevedor(2), 2433, TRUE, 10, s2)>> :
     s1 \in StatusEntrada, s2 \in StatusEntrada}

\* ledgers of five debtors, the sample debts and a small one: the largest and the
\* smallest debtor in every status, the largest within 15 days or beyond 90
LedgersDeCinco ==
  {<<Devedor(NomeDevedor(1), 11667, TRUE, 10, "em_atraso"),
     Devedor(NomeDevedor(2), v1, TRUE, d1, s1),
     Devedor(NomeDevedor(3), 2433, TRUE, 10, "negociacao"),
     Devedor(NomeDevedor(4), 999, TRUE, 10, s5),
     Devedor(NomeDevedor(5), 35000, FALSE, 0, "juridico")>> :
     v1 \in {49999, 58980}, d1 \in {10, 95}, s1 \in StatusEntrada, s5 \in StatusEntrada}

InitInadimplencia ==
  /\ inadimplentes \in {Nomear(vs) : vs \in SeqsUpTo(ValoresLedger, MaxInadimplentes)}
                         \cup LedgersPorStatus \cup LedgersDeCinco
  /\ analise_inadimplencia = NaoChamado
  /\ SemCashflow /\ SemKPIs /\ SemTendencias /\ SemInsights /\ SemPipeline

NextInadimplencia == DelinquencyAnalisar

SpecInadimplencia == InitInadimplencia /\ [][NextInadimplencia]_vars

\* the monthly records a caller hands over: the months and kinds above, and one record
\* whose credit carries a minus sign
MovimentosCashflow ==
  {Movimento(mes, tipo) : mes \in MesesEntrada, tipo \in TiposMovimento}
    \cup {Movimento("jun", <<-10, 8, -18>>)}

\* month labels of the longer lists: January, a label that is no month, and months
\* written in full, in upper case and abbreviated
RotulosDeMes == {"Janeiro", "Mês 13", "Maio", "JULHO", "dez"}

\* lists of four records that can be told apart, the first of a later year than the
\* others, under every choice of month labels
ListasDeQuatroMeses ==
  {<<[Movimento(m1, <<11, 5, 6>>) EXCEPT !.ano = 2026], Movimento(m2, <<12, 9, 3>>),
     Movimento(m3, <<13, 6, 7>>), Movimento(m4, <<14, 13, 1>>)>> :
     m1 \in RotulosDeMes, m2 \in RotulosDeMes, m3 \in RotulosDeMes, m4 \in RotulosDeMes}

InitCashflow ==
  /\ movimentacoes \in SeqsUpTo(MovimentosCashflow, MaxMeses) \cup ListasDeQuatroMeses
  /\ analise_cashflow = NaoChamado
  /\ SemInadimplencia /\ SemKPIs /\ SemTendencias /\ SemInsights /\ SemPipeline

NextCashflow == CashFlowAnalisar

SpecCashflow == InitCashflow /\ [][NextCashflow]_vars

\* a KPIAnalyzer built with a configuration, and the indicator map it is about to get
InitKPIs ==
  /\ dados_kpis \in MapasKPIs
  /\ thresholds_kpi \in ConfiguracoesKPI
  /\ analise_kpis = NaoChamado
  /\ SemInadimplencia /\ SemCashflow /\ SemTendencias /\ SemInsights /\ SemPipeline

NextKPIs == KPIAnalisar

SpecKPIs == InitKPIs /\ [][NextKPIs]_vars

\* five months in calendar order whose operating balances are the given ones
MesesComSaldos(saldos) ==
  [i \in 1..5 |->
     Movimento(<<"Maio", "jun", "JULHO", "ago", "set">>[i],
               <<500, 500 - saldos[i], saldos[i]>>)]

\* balances that rise by 100 a month and fall by 100 a month, by 99, and by 1
SeriesMonotonas ==
  {MesesComSaldos(<<-100, 0, 100, 200, 300>>), MesesComSaldos(<<300, 200, 100, 0, -100>>),
   MesesComSaldos(<<-96, 3, 102, 201, 300>>), MesesComSaldos(<<300, 201, 102, 3, -96>>),
   MesesComSaldos(<<1, 2, 3, 4, 5>>), MesesComSaldos(<<5, 4, 3, 2, 1>>)}

\* the four analyzers, each called once on its input, in any order
InitAnalisadores ==
  /\ movimentacoes \in SeqsUpTo(MovimentosPipeline, MaxMesesPipeline) \cup SeriesMonotonas
  /\ inadimplentes \in SeqsUpTo(DevedoresPipeline, MaxDevedoresPipeline)
  /\ dados_kpis \in ConjuntosKPIs
  /\ thresholds_kpi = SemEntradas
  /\ analise_cashflow = NaoChamado
  /\ analise_inadimplencia = NaoChamado
  /\ analise_kpis = NaoChamado
  /\ SemTendencias /\ SemInsights /\ SemPipeline

NextAnalisadores == KPIAnalisar \/ CashFlowAnalisar \/ DelinquencyAnalisar \/ TrendAnalisar

SpecAnalisadores == InitAnalisadores /\ [][NextAnalisadores]_vars

\* executar_analise_completa, of the script or of main.py, from its first statement
InitPipeline ==
  /\ movimentacoes \in SeqsUpTo(MovimentosPipeline, MaxMesesPipeline)
  /\ inadimplentes \in SeqsUpTo(DevedoresPipeline, MaxDevedoresPipeline)
  /\ dados_kpis \in ConjuntosKPIs
  /\ thresholds_kpi = SemEntradas
  /\ analise_cashflow = NaoChamado
  /\ analise_inadimplencia = NaoChamado
  /\ analise_kpis = NaoChamado
  /\ SemTendencias /\ SemInsights
  /\ entrada \in {"run_shopping_analysis", "main"}
  /\ pc = "kpis"
  /\ resultados = SemEntradas
  /\ chamadas = <<>>
  /\ retorno = NaoChamado

NextPipeline ==
  EtapaKPIs \/ EtapaCashflow \/ EtapaInadimplencia \/ EtapaTendencias \/ EtapaInsights

SpecPipeline == InitPipeline /\ [][NextPipeline]_vars

\* the cash-flow records the analyses handed to the insight engine come from
MovimentosInsight == MovimentosPipeline \cup {Movimento("jun", <<10, 12, -2>>)}

\* the ledgers the analyses handed to the insight engine come from
LedgersInsight ==
  {Nomear(<<58980>>), Nomear(<<58980, 35000, 11667>>), Nomear(<<2433, 2433, 2433, 2433>>),
   Nomear(<<2433, 11667, 35000, 58980>>),
   Nomear(<<2433, 2433, 2433, 2433, 2433>>), Nomear(<<1000, 1001, 1001, 1000, 1001>>),
   Nomear(<<1003, 1000, 1003, 1003, 1000>>),
   Nomear(<<2433, 2433, 2433, 2433, 2433, 2433>>),
   <<Devedor("Ivone Store", 2433, FALSE, 0, "juridico")>>}

\* the results the three analyzers return on those inputs
AnalisesKPIs ==
  {r \in {KPIAnalyzer_analisar(k, SemEntradas) : k \in ConjuntosKPIs} : r.status = "ok"}

\* a cash-flow analysis that holds nothing but a resumo_mensal: the volatility, the
\* negative months and the consolidated balance of the sample data set
ResumoVolatil ==
  [resumo_mensal |-> [volatilidade |-> 108550306, meses_negativos |-> 2,
                      saldo_consolidado |-> 1773168]]

\* six monthly records, the number from which the cash-flow confidence is highest
SeisMovimentos ==
  <<Movimento("Maio", <<10, 16, -6>>), Movimento("jun", <<10, 8, 2>>),
    Movimento("JULHO", <<10, 8, 2>>), Movimento("Maio", <<10, 8, 2>>),
    Movimento("jun", <<10, 12, -2>>), Movimento("JULHO", <<10, 8, 2>>)>>

AnalisesCashflow ==
  {r \in {CashFlowAnalyzer_analisar(m) : m \in SeqsUpTo(MovimentosInsight, MaxMesesPipeline)}
          \cup {CashFlowAnalyzer_analisar(SeisMovimentos)} :
     r.status = "ok"}
  \cup {ResumoVolatil}

AnalisesInadimplencia == {DelinquencyAnalyzer_analisar(l) : l \in LedgersInsight}

AnaliseTendencias ==
  TrendAnalyzer_analisar(<<Movimento("Maio", <<10, 8, 2>>), Movimento("jun", <<10, 16, -6>>),
                           Movimento("JULHO", <<2, 4, -3>>)>>)

\* the map a caller hands to gerar_insights_completos: any of the analyses may be absent
MapaDeAnalises(chaves, kpis, cashflow, inadimplencia) ==
  [chave \in chaves |->
     CASE chave = "analise_kpis"          -> kpis
       [] chave = "analise_cashflow"      -> cashflow
       [] chave = "analise_inadimplencia" -> inadimplencia
       [] chave = "analise_tendencias"    -> AnaliseTendencias]

\* debts from one real to the largest of the sample data set
ValoresDeConcentracao == {1, 1000, 58980}

\* every ledger of one, two or three debtors with those debts, and ledgers of four and
\* five debtors on both sides of the two thresholds: a largest share of 30.00%, of
\* 30.01% (reported as 30.0) and of 30.1%, a top-3 share of 60.0% and of 60.1%
LedgersDeConcentracao ==
  {Nomear(valores) : valores \in SeqsUpTo(ValoresDeConcentracao, 3) \ {<<>>}}
  \cup {Nomear(<<3, 3, 2, 2>>), Nomear(<<3001, 2333, 2333, 2333>>),
         Nomear(<<301, 233, 233, 233>>), Nomear(<<2, 2, 2, 2, 2>>),
         Nomear(<<2000, 2000, 2010, 1995, 1995>>)}

\* other contents of the 'analise_tendencias' entry: the analysis of balances that
\* fall by 100 a month (a declining general trend) and an empty result
OutrasTendencias ==
  {TrendAnalyzer_analisar(MesesComSaldos(<<300, 200, 100, 0, -100>>)), SemEntradas}

\* an insight engine, freshly constructed, and the analysis map it is about to be given
InitInsight ==
  /\ dados_analise \in
       {MapaDeAnalises(chaves, k, c, i) :
          chaves \in SUBSET {"analise_kpis", "analise_cashflow", "analise_inadimplencia",
                             "analise_tendencias"},
          k \in AnalisesKPIs, c \in AnalisesCashflow, i \in AnalisesInadimplencia}
       \cup
       {Guardar(MapaDeAnalises(chaves, k, c, i), "analise_tendencias", t) :
          chaves \in SUBSET {"analise_kpis", "analise_cashflow", "analise_inadimplencia"},
          k \in AnalisesKPIs,
          c \in {ResumoVolatil, CashFlowAnalyzer_analisar(SeisMovimentos),
                 CashFlowAnalyzer_analisar(<<Movimento("Maio", <<10, 8, 2>>),
                                             Movimento("jun", <<10, 16, -6>>)>>)},
          i \in AnalisesInadimplencia, t \in OutrasTendencias}
       \cup
       {MapaDeAnalises(chaves, k, ResumoVolatil, DelinquencyAnalyzer_analisar(l)) :
          chaves \in {{"analise_inadimplencia"},
                      {"analise_kpis", "analise_cashflow", "analise_inadimplencia"}},
          k \in AnalisesKPIs, l \in LedgersDeConcentracao}
  /\ insights_gerados = <<>>
  /\ insights = NaoChamado
  /\ listas_devolvidas = <<>>
  /\ SemInadimplencia /\ SemCashflow /\ SemKPIs /\ SemTendencias /\ SemPipeline

NextInsight == GerarInsights

SpecInsight == InitInsight /\ [][NextInsight]_vars

\* the number of calls made on one engine
MaxChamadas == 3

\* the maps the callers of a reused engine hand to it, one after the other
MapasReuso ==
  {MapaDeAnalises(chaves, k, ResumoVolatil, DelinquencyAnalyzer_analisar(l)) :
     chaves \in {{"analise_kpis"}, {"analise_inadimplencia"},
                 {"analise_kpis", "analise_cashflow", "analise_inadimplencia"}},
     k \in AnalisesKPIs,
     l \in {Nomear(<<58980>>), Nomear(<<2433, 2433, 2433, 2433, 2433>>)}}

\* a caller invokes gerar_insights_completos(mapa) on the engine an earlier call was
\* made on
GerarInsightsDeNovo(mapa) ==
  /\ pc = "inativo"
  /\ insights.status = "ok"
  /\ Len(listas_devolvidas) < MaxChamadas
  /\ insights_gerados' =
       com_score_confianca(lista_da_instancia(insights_gerados, mapa), mapa)
  /\ insights' = [status |-> "ok", lista |-> lista_devolvida(insights_gerados, mapa)]
  /\ listas_devolvidas' =
       Append(listas_devolvidas,
              Devolucao(mapa, lista_devolvida(insights_gerados, mapa)))
  /\ dados_analise' = mapa_apos_insights(mapa)
  /\ UNCHANGED <<varsInadimplencia, varsCashflow, varsKPIs, analise_tendencias,
                 varsPipeline>>

\* one engine, freshly constructed, and the map of its first caller
InitReuso ==
  /\ dados_analise \in MapasReuso
  /\ insights_gerados = <<>>
  /\ insights = NaoChamado
  /\ listas_devolvidas = <<>>
  /\ SemInadimplencia /\ SemCashflow /\ SemKPIs /\ SemTendencias /\ SemPipeline

NextReuso == GerarInsights \/ \E mapa \in MapasReuso : GerarInsightsDeNovo(mapa)

SpecReuso == InitReuso /\ [][NextReuso]_vars

----------------------------------------------------------------------------
\* Claims

\* the number of positions of a list that hold the insight x
Ocorrencias(lista, x) == Cardinality({i \in 1..Len(lista) : lista[i] = x})

\* C1: the list gerar_insights_completos returns is in non-increasing priority rank
\* (CRITICAL > HIGH > MEDIUM > LOW), adjacent insights of equal priority are in
\* non-increasing estimated impact, and the list holds exactly the insights the rules
\* generated, none dropped and none duplicated.
C1_InsightsPriorizados ==
  insights.status = "ok" =>
    /\ \A i \in 1..(Len(insights.lista) - 1) :
         LET a == insights.lista[i]
             b == insights.lista[i + 1]
         IN /\ ordem_prioridade(a.prioridade) >= ordem_prioridade(b.prioridade)
            /\ ordem_prioridade(a.prioridade) = ordem_prioridade(b.prioridade)
                 => a.valor_impacto >= b.valor_impacto
    /\ Len(insights.lista) = Len(insights_gerados)
    /\ \A i \in 1..Len(insights_gerados) :
         Ocorrencias(insights.lista, insights_gerados[i])
           = Ocorrencias(insights_gerados, insights_gerados[i])

\* a returned list that is not in the order of generation, with two priorities in it,
\* two insights of one priority and different impacts, and two with the same key
C1_Witness ==
  /\ insights.status = "ok"
  /\ insights.lista # insights_gerados
  /\ \E i, j \in 1..Len(insights.lista) :
       insights.lista[i].prioridade = "CRITICA" /\ insights.lista[j].prioridade = "MEDIA"
  /\ \E i \in 1..(Len(insights.lista) - 1) :
       /\ insights.lista[i].prioridade = insights.lista[i + 1].prioridade
       /\ insights.lista[i].valor_impacto > insights.lista[i + 1].valor_impacto
  /\ \E i \in 1..(Len(insights.lista) - 1) :
       /\ insights.lista[i].prioridade = insights.lista[i + 1].prioridade
       /\ insights.lista[i].valor_impacto = insights.lista[i + 1].valor_impacto

\* the error of a call that was given fewer records than the analyzer's minimum is an
\* InsufficientDataError with that minimum and the number given
DadosInsuficientes(analise, minimo, fornecidos) ==
  (analise.status # "none" /\ fornecidos < minimo) =>
    /\ analise.status = "raised"
    /\ analise.erro.kind = "InsufficientDataError"
    /\ analise.erro.minimum_required = minimo
    /\ analise.erro.actual = fornecidos

\* C4: CashFlowAnalyzer.analisar with fewer than 2 records, TrendAnalyzer.analisar with
\* fewer than 3 observations and DelinquencyAnalyzer.analisar with an empty ledger fail
\* with an InsufficientDataError that carries the required and the actual count.
C4_ErroDadosInsuficientes ==
  /\ DadosInsuficientes(analise_cashflow, 2, Len(movimentacoes))
  /\ DadosInsuficientes(analise_tendencias, min_periodos_tendencia, Len(movimentacoes))
  /\ DadosInsuficientes(analise_inadimplencia, 1, Len(inadimplentes))

\* the object a stage calls, and the key its result is stored under
ObjetoDaEtapa(etapa) ==
  CASE etapa = "kpis"          -> "KPIAnalyzer"
    [] etapa = "cashflow"      -> "CashFlowAnalyzer"
    [] etapa = "inadimplencia" -> "DelinquencyAnalyzer"
    [] etapa = "tendencias"    -> "TrendAnalyzer"
    [] etapa = "insights"      -> "InsightEngine"

ChaveDaEtapa(etapa) ==
  CASE etapa = "kpis"          -> "analise_kpis"
    [] etapa = "cashflow"      -> "analise_cashflow"
    [] etapa = "inadimplencia" -> "analise_inadimplencia"
    [] etapa = "tendencias"    -> "analise_tendencias"
    [] etapa = "insights"      -> "insights"

\* the calls made so far are the first stages, in order, each made once, and every
\* stage before the last one called has stored its result
EtapasEmOrdem ==
  /\ Len(chamadas) <= Len(Etapas(entrada))
  /\ \A i \in 1..Len(chamadas) :
       /\ chamadas[i] = ObjetoDaEtapa(Etapas(entrada)[i])
       /\ \A j \in 1..(i - 1) : ChaveDaEtapa(Etapas(entrada)[j]) \in DOMAIN resultados

\* C5: in executar_analise_completa a stage starts only after every earlier stage has
\* completed, no stage runs twice, and once a stage has failed no further stage
\* starts, the insight engine is never invoked and no result map is returned: the
\* caller gets the exception.
C5_FalhaInterrompe ==
  /\ [](/\ EtapasEmOrdem
        /\ retorno.status \in {"none", "raised", "ok"}
        /\ retorno.status = "raised" =>
             /\ pc = "fim"
             /\ \A i \in 1..Len(chamadas) : chamadas[i] # "InsightEngine"
             /\ DOMAIN retorno = {"status", "erro"}
        /\ retorno.status = "ok" =>
             /\ Len(chamadas) = Len(Etapas(entrada))
             /\ \A i \in 1..Len(Etapas(entrada)) :
                  ChaveDaEtapa(Etapas(entrada)[i]) \in DOMAIN retorno.resultados)
  /\ [][retorno.status = "raised" => chamadas' = chamadas]_vars

\* the cash-flow stage of the script failed after the indicator stage had stored its
\* result: two calls were made and the caller got the exception, not the partial map
C5_Witness ==
  /\ entrada = "run_shopping_analysis"
  /\ retorno.status = "raised"
  /\ chamadas = <<"KPIAnalyzer", "CashFlowAnalyzer">>
  /\ DOMAIN resultados = {"analise_kpis"}

Analisados == analise_inadimplencia.inadimplentes_analisados

\* the tier the five-level rule gives a debt of v with a delay of d days
NaFaixa(risco, v, d) ==
  /\ (risco = "MUITO_ALTO") <=> (v >= 50000 \/ d >= 90)
  /\ (risco = "ALTO") <=> (~(v >= 50000 \/ d >= 90) /\ (v >= 20000 \/ d >= 60))
  /\ (risco = "MEDIO") <=> (~(v >= 20000 \/ d >= 60) /\ (v >= 5000 \/ d >= 30))
  /\ (risco = "BAIXO") <=> (~(v >= 5000 \/ d >= 30) /\ (v >= 1000 \/ d >= 15))
  /\ (risco = "MUITO_BAIXO") <=> (v < 1000 /\ d < 15)

\* C2: the risk stored on every analysed debtor is the tier of its debt and its days
\* late (VERY_HIGH from 50000 or 90 days, HIGH from 20000 or 60, MEDIUM from 5000 or
\* 30, LOW from 1000 or 15, else VERY_LOW), either threshold alone being enough.
C2_RiscoPorFaixas ==
  analise_inadimplencia.status = "ok" =>
    \A i \in 1..Len(Analisados) :
      /\ Analisados[i].valor_divida = inadimplentes[i].valor_divida
      /\ inadimplentes[i].tem_dias => Analisados[i].dias_atraso = inadimplentes[i].dias_atraso
      /\ Analisados[i].risco \in RiskLevels
      /\ NaFaixa(Analisados[i].risco, Analisados[i].valor_divida, Analisados[i].dias_atraso)

\* a debtor below every value threshold is VERY_HIGH by its delay alone, and another
\* with no delay is VERY_HIGH by its debt alone
C2_Witness ==
  /\ analise_inadimplencia.status = "ok"
  /\ Analisados[1].valor_divida < 1000 /\ Analisados[1].dias_atraso >= 90
  /\ Analisados[1].risco = "MUITO_ALTO"
  /\ Analisados[2].valor_divida >= 50000 /\ Analisados[2].dias_atraso = 0
  /\ Analisados[2].risco = "MUITO_ALTO"

\* C3: between two analysed debtors, the one with the larger debt and the same delay,
\* or the longer delay and the same debt, never has the lower risk.
C3_RiscoMonotono ==
  analise_inadimplencia.status = "ok" =>
    \A i, j \in 1..Len(Analisados) :
      LET a == Analisados[i]
          b == Analisados[j]
      IN /\ (a.dias_atraso = b.dias_atraso /\ a.valor_divida <= b.valor_divida)
              => RiskOrdinal(a.risco) <= RiskOrdinal(b.risco)
         /\ (a.valor_divida = b.valor_divida /\ a.dias_atraso <= b.dias_atraso)
              => RiskOrdinal(a.risco) <= RiskOrdinal(b.risco)

\* two debtors with the same delay and different debts whose risks differ strictly
C3_Witness ==
  /\ analise_inadimplencia.status = "ok"
  /\ Analisados[1].dias_atraso = Analisados[2].dias_atraso
  /\ Analisados[1].valor_divida < Analisados[2].valor_divida
  /\ RiskOrdinal(Analisados[1].risco) < RiskOrdinal(Analisados[2].risco)

IndiceConcentracao == analise_inadimplencia.concentracao_dividas.indice_concentracao

\* C6: for a ledger of n >= 2 debtors the concentration index lies between 0 and
\* (n-1)/n (here in thousandths): it is never negative.
C6_GiniEntreZeroEMaximo ==
  (analise_inadimplencia.status = "ok" /\ Len(inadimplentes) >= 2) =>
    /\ IndiceConcentracao >= 0
    /\ IndiceConcentracao * Len(inadimplentes) <= 1000 * (Len(inadimplentes) - 1)

TodosIguais ==
  \A i, j \in 1..Len(inadimplentes) :
    inadimplentes[i].valor_divida = inadimplentes[j].valor_divida

\* C7: when every debtor of the ledger owes the same amount the concentration index
\* is 0.
C7_GiniIguaisZero ==
  (analise_inadimplencia.status = "ok" /\ TodosIguais) => IndiceConcentracao = 0

\* an analysed ledger of at least two debtors owing the same amount
C7_Witness ==
  /\ analise_inadimplencia.status = "ok"
  /\ Len(inadimplentes) >= 2
  /\ TodosIguais
  /\ IndiceConcentracao = 0

Ranking == analise_inadimplencia.ranking_por_valor

TotalLedger == SumSeq([i \in 1..Len(inadimplentes) |-> inadimplentes[i].valor_divida])

\* C8: the ranking lists every debtor of the ledger once, largest debt first, at
\* positions 1..n; each share is the debt over the ledger total as a percentage
\* rounded to 0.1; and the shares add up to 100 within 0.05 per entry.
C8_RankingParticipacao ==
  analise_inadimplencia.status = "ok" =>
    /\ Len(Ranking) = Len(inadimplentes)
    /\ {Ranking[i].nome : i \in 1..Len(Ranking)}
         = {inadimplentes[j].nome : j \in 1..Len(inadimplentes)}
    /\ \A i \in 1..Len(Ranking) :
         /\ Ranking[i].posicao = i
         /\ \E j \in 1..Len(inadimplentes) :
              /\ inadimplentes[j].nome = Ranking[i].nome
              /\ inadimplentes[j].valor_divida = Ranking[i].valor_divida
         /\ i > 1 => Ranking[i - 1].valor_divida >= Ranking[i].valor_divida
         /\ 2 * Abs(Ranking[i].participacao_percentual * TotalLedger
                      - 1000 * Ranking[i].valor_divida) <= TotalLedger
    /\ 2 * Abs(SumSeq([i \in 1..Len(Ranking) |-> Ranking[i].participacao_percentual]) - 1000)
         <= Len(Ranking)

\* a ranking of three debtors that had to be reordered and whose rounded shares do
\* not add up to exactly 100
C8_Witness ==
  /\ analise_inadimplencia.status = "ok"
  /\ Len(Ranking) = 3
  /\ Ranking[1].nome # inadimplentes[1].nome
  /\ SumSeq([i \in 1..Len(Ranking) |-> Ranking[i].participacao_percentual]) # 1000

\* the records in the order CashFlowAnalyzer works on them
MesesOrdenados ==
  ordenar_por_mes([i \in 1..Len(movimentacoes) |-> converter_mov(movimentacoes[i], i)])

ScoreEsperado(i) ==
  LET mov == movimentacoes[i]
      total_creditos == SumSeq([k \in 1..Len(movimentacoes) |-> movimentacoes[k].credito])
  IN (IF mov.saldo_operacional < 0 THEN 50 ELSE 0)
     + (IF 10 * Abs(mov.debito) > 15 * mov.credito THEN 30 ELSE 0)
     + (IF 10 * Len(movimentacoes) * mov.credito < 5 * total_creditos THEN 20 ELSE 0)

\* C9: each month's score is 50 for a negative balance + 30 for debits above 1.5 times
\* the credits + 20 for credits below half the mean credit; a month is listed in
\* meses_criticos exactly when its score is positive, once, with that score, which is
\* within [0,100]; and the list is in non-increasing score order.
C9_ScoreMesesCriticos ==
  analise_cashflow.status = "ok" =>
    LET criticos == analise_cashflow.meses_criticos
    IN /\ \A i \in 1..Len(movimentacoes) :
            Cardinality({k \in 1..Len(criticos) : criticos[k].entrada = i})
              = IF ScoreEsperado(i) > 0 THEN 1 ELSE 0
       /\ \A k \in 1..Len(criticos) :
            /\ criticos[k].entrada \in 1..Len(movimentacoes)
            /\ criticos[k].score_risco = ScoreEsperado(criticos[k].entrada)
            /\ criticos[k].score_risco \in 0..100
       /\ \A k \in 1..(Len(criticos) - 1) :
            criticos[k].score_risco >= criticos[k + 1].score_risco

\* an analysis that lists a month meeting all three conditions ahead of an earlier
\* month meeting only some, and leaves a healthy month out
C9_Witness ==
  /\ analise_cashflow.status = "ok"
  /\ Len(analise_cashflow.meses_criticos) >= 2
  /\ Len(analise_cashflow.meses_criticos) < Len(movimentacoes)
  /\ analise_cashflow.meses_criticos[1].score_risco = 100
  /\ \E k \in 2..Len(analise_cashflow.meses_criticos) :
       /\ analise_cashflow.meses_criticos[k].score_risco \in {20, 30, 50}
       /\ \E a, b \in 1..Len(MesesOrdenados) :
            /\ a < b
            /\ MesesOrdenados[a].entrada = analise_cashflow.meses_criticos[k].entrada
            /\ MesesOrdenados[b].entrada = analise_cashflow.meses_criticos[1].entrada

AlertasConsecutivos ==
  IF analise_cashflow.status = "ok"
  THEN {k \in 1..Len(analise_cashflow.alertas) :
          analise_cashflow.alertas[k].titulo = "Meses Consecutivos com Saldo Negativo"}
  ELSE {}

NegativosAdjacentes ==
  \E i \in 1..(Len(MesesOrdenados) - 1) :
    /\ MesesOrdenados[i].saldo_operacional < 0
    /\ MesesOrdenados[i + 1].saldo_operacional < 0

\* C10: once CashFlowAnalyzer.analisar has been called, the 'consecutive negative
\* months' alert is emitted if and only if two adjacent records of the month-ordered
\* sequence both have a negative operating balance, and it is emitted at most once.
C10_AlertaConsecutivos ==
  analise_cashflow.status # "none" =>
    /\ (AlertasConsecutivos # {}) <=> NegativosAdjacentes
    /\ Cardinality(AlertasConsecutivos) <= 1

----------------------------------------------------------------------------
\* Indicator analysis

KPIsAnalisados == IF analise_kpis.status = "ok" THEN analise_kpis.kpis_analisados ELSE <<>>

PesoDoStatus(status) ==
  CASE status = "CRITICO" -> 0 [] status = "ATENCAO" -> 25 [] status = "BOM" -> 70
    [] status = "EXCELENTE" -> 100

PontosDosStatus == SumSeq([i \in 1..Len(KPIsAnalisados) |-> PesoDoStatus(KPIsAnalisados[i].status)])

\* the score (in tenths) is the mean status weight rounded to one decimal, in [0,100],
\* and 0 when no indicator is better than CRITICAL
ScoreEhMediaDosPesos ==
  LET n == Len(KPIsAnalisados)
      s == analise_kpis.score_saude_financeira
  IN /\ 0 <= s /\ s <= 1000
     /\ n > 0 => 2 * Abs(s * n - 10 * PontosDosStatus) <= n
     /\ (\A i \in 1..n : KPIsAnalisados[i].status = "CRITICO") => s = 0

\* C11: after a successful KPIAnalyzer.analisar, score_saude_financeira is the mean of
\* the status weights (0, 25, 70, 100) over the analysed indicators rounded to one
\* decimal, lies in [0,100], is 0 when every indicator is CRITICAL or none was given,
\* and the four counters of resumo_status add up to the number of analysed indicators.
C11_ScoreEResumo ==
  analise_kpis.status = "ok" =>
    /\ Len(KPIsAnalisados) = Len(dados_kpis)
    /\ ScoreEhMediaDosPesos
    /\ analise_kpis.resumo_status["critico"] + analise_kpis.resumo_status["atencao"]
         + analise_kpis.resumo_status["bom"] + analise_kpis.resumo_status["excelente"]
       = Len(KPIsAnalisados)

OrdemDoStatus(status) ==
  CASE status = "CRITICO" -> 0 [] status = "ATENCAO" -> 1 [] status = "BOM" -> 2
    [] status = "EXCELENTE" -> 3

\* the band that applies to a key: the configured one, else the default one, else none
FaixaAplicavel(nome) ==
  LET n == nome_normalizado(nome)
  IN IF n \in DOMAIN thresholds_kpi THEN thresholds_kpi[n]
     ELSE IF n \in {"receita_total", "taxa_inadimplencia", "saldo_operacional",
                    "saldo_projetado", "despesa_total", "recebidos_atraso"}
          THEN thresholds_padrao(n)
          ELSE SemEntradas

Invertido(nome) ==
  nome_normalizado(nome) \in {"taxa_inadimplencia", "despesa_total", "recebidos_atraso"}

\* the status a band of three bounds gives a value
StatusPelaFaixa(nome, valor, faixa) ==
  IF Invertido(nome)
  THEN IF valor >= faixa.critico THEN "CRITICO"
       ELSE IF valor >= faixa.atencao THEN "ATENCAO"
       ELSE IF valor >= faixa.bom THEN "BOM" ELSE "EXCELENTE"
  ELSE IF valor <= faixa.critico THEN "CRITICO"
       ELSE IF valor <= faixa.atencao THEN "ATENCAO"
       ELSE IF valor <= faixa.bom THEN "BOM" ELSE "EXCELENTE"

\* two analysed indicators of the same normalised name, hence of the same band
MesmoIndicador(i, j) ==
  /\ i # j
  /\ nome_normalizado(dados_kpis[i].nome) = nome_normalizado(dados_kpis[j].nome)

\* C12: for two analysed indicators of the same name and band, the larger value never
\* has a better status when the indicator is inverted and never a worse one otherwise;
\* with a band of three bounds the status is CRITICAL at the critical bound (at or
\* above it when inverted, at or below it otherwise), then WARNING, GOOD, EXCELLENT.
C12_StatusMonotono ==
  analise_kpis.status = "ok" =>
    /\ \A i \in 1..Len(dados_kpis) : \A j \in 1..Len(dados_kpis) :
         (MesmoIndicador(i, j) /\ dados_kpis[i].valor <= dados_kpis[j].valor) =>
           IF Invertido(dados_kpis[i].nome)
           THEN OrdemDoStatus(KPIsAnalisados[i].status) >= OrdemDoStatus(KPIsAnalisados[j].status)
           ELSE OrdemDoStatus(KPIsAnalisados[i].status) <= OrdemDoStatus(KPIsAnalisados[j].status)
    /\ \A i \in 1..Len(dados_kpis) :
         DOMAIN FaixaAplicavel(dados_kpis[i].nome) = {"critico", "atencao", "bom"} =>
           KPIsAnalisados[i].status =
             StatusPelaFaixa(dados_kpis[i].nome, dados_kpis[i].valor,
                             FaixaAplicavel(dados_kpis[i].nome))

\* an inverted indicator analysed at two values that fall in different statuses
C12_Witness ==
  /\ analise_kpis.status = "ok"
  /\ \E i \in 1..Len(dados_kpis) : \E j \in 1..Len(dados_kpis) :
       /\ MesmoIndicador(i, j)
       /\ Invertido(dados_kpis[i].nome)
       /\ dados_kpis[i].valor < dados_kpis[j].valor
       /\ KPIsAnalisados[i].status = "EXCELENTE"
       /\ KPIsAnalisados[j].status = "CRITICO"

\* a value the model of the data admits: not negative, or that of a balance
ValorAdmitido(indicador) ==
  \/ indicador.valor >= 0
  \/ nome_normalizado(indicador.nome) \in
       {"saldo_operacional", "saldo_projetado", "saldo_projetado_final"}

\* C13: every indicator is classified with the configured band of its normalised name
\* when the configuration has one, else with the default band of that name, else with
\* none; with no band it is GOOD with the note, whatever its value.
C13_FaixaDoIndicador ==
  (analise_kpis.status # "none" /\ \A i \in 1..Len(dados_kpis) : ValorAdmitido(dados_kpis[i])) =>
    /\ analise_kpis.status = "ok"
    /\ \A i \in 1..Len(dados_kpis) :
         LET faixa == FaixaAplicavel(dados_kpis[i].nome)
         IN /\ DOMAIN faixa = {"critico", "atencao", "bom"} =>
                 KPIsAnalisados[i].status =
                   StatusPelaFaixa(dados_kpis[i].nome, dados_kpis[i].valor, faixa)
            /\ DOMAIN faixa = {} =>
                 /\ KPIsAnalisados[i].status = "BOM"
                 /\ KPIsAnalisados[i].observacoes = "Thresholds não configurados"

----------------------------------------------------------------------------
\* Insight rules

InsightsRetornados == IF insights.status = "ok" THEN insights.lista ELSE <<>>

KPIsCriticosDoMapa ==
  IF "analise_kpis" \in DOMAIN dados_analise
  THEN Get(dados_analise["analise_kpis"], "kpis_criticos", <<>>)
  ELSE <<>>

\* names (as KPIAnalyzer reports them) of delinquency, revenue and balance indicators
NomeDeInadimplencia(nome) == nome \in {"Taxa Inadimplencia", "Taxa Inadimplência"}

NomeDeReceita(nome) == nome = "Receita Total"

NomeDeSaldo(nome) == nome \in {"Saldo Operacional", "Saldo Projetado", "Saldo Projetado Final"}

TemInsightDoIndicador(nome) ==
  \E k \in 1..Len(InsightsRetornados) :
    InsightsRetornados[k].tipo = "KPI" /\ InsightsRetornados[k].alvo = nome

\* C14: once gerar_insights_completos has returned, every CRITICAL indicator of the map
\* whose name is that of a delinquency, revenue or balance indicator has an
\* INDICATOR-type insight targeted at it in the returned list.
C14_InsightPorIndicadorCritico ==
  insights.status = "ok" =>
    \A i \in 1..Len(KPIsCriticosDoMapa) :
      LET nome == KPIsCriticosDoMapa[i].nome
      IN (NomeDeInadimplencia(nome) \/ NomeDeReceita(nome) \/ NomeDeSaldo(nome)) =>
           TemInsightDoIndicador(nome)

\* the delinquency analysis of the map, when it has one
TemAnaliseInadimplencia ==
  /\ "analise_inadimplencia" \in DOMAIN dados_analise
  /\ "inadimplentes_analisados" \in DOMAIN dados_analise["analise_inadimplencia"]

DividasDoMapa ==
  IF TemAnaliseInadimplencia
  THEN valores_de(dados_analise["analise_inadimplencia"].inadimplentes_analisados)
  ELSE <<>>

\* the sum of the three largest debts
Top3DoMapa ==
  LET v == DividasDoMapa
      n == Len(v)
  IN IF n <= 3 THEN SumSeq(v)
     ELSE LET somas == {v[i] + v[j] + v[k] : i \in 1..n, j \in 1..n, k \in 1..n}
              validas == {s \in somas : \E i \in 1..n, j \in 1..n, k \in 1..n :
                                          i < j /\ j < k /\ s = v[i] + v[j] + v[k]}
          IN CHOOSE s \in validas : \A u \in validas : u <= s

InsightsDeConcentracao ==
  {k \in 1..Len(InsightsRetornados) :
     /\ InsightsRetornados[k].tipo = "INADIMPLENCIA"
     /\ InsightsRetornados[k].titulo = "Alta Concentração de Inadimplência"}

\* the share of the three largest debts, rounded half-even to 0.1, is above 60
ParticipacaoTop3Acima60 == 2000 * Top3DoMapa > 1201 * SumSeq(DividasDoMapa)

\* C15: once gerar_insights_completos has returned, the 'high concentration' insight is
\* in the list exactly when the map has a delinquency analysis whose three largest
\* debts hold a share (rounded to 0.1) above 60; it is CRITICAL and its impact is the
\* sum of those three debts; the sample ledger (58980, 35000, 11667, 2433) has the
\* share 97.7 and gets the insight.
C15_InsightDeConcentracao ==
  insights.status = "ok" =>
    /\ (InsightsDeConcentracao # {}) <=> (TemAnaliseInadimplencia /\ ParticipacaoTop3Acima60)
    /\ \A k \in InsightsDeConcentracao :
         /\ InsightsRetornados[k].prioridade = "CRITICA"
         /\ InsightsRetornados[k].valor_impacto = Top3DoMapa * 100
    /\ DividasDoMapa = <<2433, 11667, 35000, 58980>> =>
         /\ dados_analise["analise_inadimplencia"].concentracao_dividas.concentracao_top3 = 977
         /\ InsightsDeConcentracao # {}

\* the sample ledger was analysed and the insight on its three largest debts returned
C15_Witness ==
  /\ insights.status = "ok"
  /\ DividasDoMapa = <<2433, 11667, 35000, 58980>>
  /\ \E k \in InsightsDeConcentracao : InsightsRetornados[k].valor_impacto = 10564700

\* the months and the debtors the analyses of the map were made on
MesesDoMapa ==
  IF "analise_cashflow" \in DOMAIN dados_analise
     /\ "movimentacoes_analisadas" \in DOMAIN dados_analise["analise_cashflow"]
  THEN Len(dados_analise["analise_cashflow"].movimentacoes_analisadas)
  ELSE 0

BonusDoTipo(tipo) ==
  CASE tipo = "KPI" -> 20
    [] tipo = "FLUXO_CAIXA" -> IF MesesDoMapa >= 6 THEN 15
                               ELSE IF MesesDoMapa >= 3 THEN 10 ELSE 0
    [] tipo = "INADIMPLENCIA" -> IF Len(DividasDoMapa) >= 5 THEN 10 ELSE 0
    [] tipo \in {"TENDENCIA", "OPERACIONAL"} -> 0

\* C16: every insight gerar_insights_completos returns has a confidence score, equal to
\* 70 plus the bonus of its type (20 for INDICATOR; 15, 10 or 0 for CASHFLOW by the
\* months analysed; 10 or 0 for DELINQUENCY by the debtors analysed; 0 for TREND and
\* OPERATIONAL) plus 5 when its priority is CRITICAL, and within [0,100].
C16_ScoreConfianca ==
  \A k \in 1..Len(InsightsRetornados) :
    LET insight == InsightsRetornados[k]
    IN /\ insight.score_confianca # SemScore
       /\ insight.score_confianca =
            70 + BonusDoTipo(insight.tipo) + (IF insight.prioridade = "CRITICA" THEN 5 ELSE 0)
       /\ 0 <= insight.score_confianca /\ insight.score_confianca <= 100

\* a returned list with a CRITICAL cash-flow insight on six months, a delinquency
\* insight on five debtors and an indicator insight
C16_Witness ==
  /\ MesesDoMapa >= 6
  /\ Len(DividasDoMapa) >= 5
  /\ \E k \in 1..Len(InsightsRetornados) :
       /\ InsightsRetornados[k].tipo = "FLUXO_CAIXA"
       /\ InsightsRetornados[k].score_confianca = 90
  /\ \E k \in 1..Len(InsightsRetornados) :
       /\ InsightsRetornados[k].tipo = "INADIMPLENCIA"
       /\ InsightsRetornados[k].score_confianca \in {80, 85}
  /\ \E k \in 1..Len(InsightsRetornados) :
       /\ InsightsRetornados[k].tipo = "KPI"
       /\ InsightsRetornados[k].score_confianca \in {90, 95}

----------------------------------------------------------------------------
\* The analyzers side by side

\* the inputs handed to the analyzers and the configuration of the KPIAnalyzer instance
EntradasDosAnalisadores == <<movimentacoes, inadimplentes, dados_kpis, thresholds_kpi>>

\* a result, once returned, is the one the analyzer gives on its input when run alone
ResultadosIndependentes ==
  /\ analise_kpis.status # "none" =>
       analise_kpis = KPIAnalyzer_analisar(dados_kpis, thresholds_kpi)
  /\ analise_cashflow.status # "none" =>
       analise_cashflow = CashFlowAnalyzer_analisar(movimentacoes)
  /\ analise_inadimplencia.status # "none" =>
       analise_inadimplencia = DelinquencyAnalyzer_analisar(inadimplentes)
  /\ analise_tendencias.status # "none" =>
       analise_tendencias = TrendAnalyzer_analisar(movimentacoes)

\* a step leaves the inputs, the instance configuration and every result already
\* returned as they were
PassoSemInterferencia ==
  /\ EntradasDosAnalisadores' = EntradasDosAnalisadores
  /\ (analise_kpis.status # "none") => (analise_kpis' = analise_kpis)
  /\ (analise_cashflow.status # "none") => (analise_cashflow' = analise_cashflow)
  /\ (analise_inadimplencia.status # "none") =>
       (analise_inadimplencia' = analise_inadimplencia)
  /\ (analise_tendencias.status # "none") => (analise_tendencias' = analise_tendencias)

----------------------------------------------------------------------------
\* Debits and credits of the monthly records

\* the caller's records with every debit written without its sign
ComDebitoSemSinal(movs) ==
  [i \in 1..Len(movs) |-> [movs[i] EXCEPT !.debito = Abs(movs[i].debito)]]

\* the records of a returned cash-flow analysis
MovimentacoesAnalisadas == analise_cashflow.movimentacoes_analisadas

\* C18: every analysed record stores the absolute value of the debit it was built from
\* and has debit >= 0 and credit >= 0; the sign of a debit never changes the outcome
\* of the analysis; a record with a negative credit makes the analysis raise.
C18_DebitoAbsoluto ==
  /\ analise_cashflow.status = "ok" =>
       /\ Len(MovimentacoesAnalisadas) = Len(movimentacoes)
       /\ \A k \in 1..Len(MovimentacoesAnalisadas) :
            LET obj == MovimentacoesAnalisadas[k]
            IN /\ obj.entrada \in 1..Len(movimentacoes)
               /\ obj.debito = Abs(movimentacoes[obj.entrada].debito)
               /\ obj.credito = movimentacoes[obj.entrada].credito
               /\ obj.debito >= 0
               /\ obj.credito >= 0
  /\ analise_cashflow.status # "none" =>
       analise_cashflow = CashFlowAnalyzer_analisar(ComDebitoSemSinal(movimentacoes))
  /\ (/\ analise_cashflow.status # "none"
      /\ \E i \in 1..Len(movimentacoes) : movimentacoes[i].credito < 0) =>
       /\ analise_cashflow.status = "raised"
       /\ analise_cashflow.erro.kind = "CalculationError"

\* an analysis returned for records one of which gave its debit with a minus sign
C18_Witness ==
  /\ analise_cashflow.status = "ok"
  /\ \E i \in 1..Len(movimentacoes) : movimentacoes[i].debito < 0

----------------------------------------------------------------------------
\* Recovery potential

\* the recovery scenarios of a returned delinquency analysis, amounts in centavos
PotencialRecuperacao == analise_inadimplencia.impacto_financeiro.potencial_recuperacao

\* the recovery rate of a status as the ledger spells it, in hundredths
TaxaDoStatus(s) ==
  CASE s = "confissao_divida" -> 70
    [] s = "em_atraso"        -> 60
    [] s = "negociacao"       -> 80
    [] s = "acordo"           -> 90
    [] s = "juridico"         -> 40

\* the sum over the ledger of debt times rate, in centavos
RecuperacaoEsperada ==
  SumSeq([i \in 1..Len(inadimplentes) |->
            inadimplentes[i].valor_divida * TaxaDoStatus(inadimplentes[i].status)])

\* the total of the ledger, in centavos
TotalEmCentavos ==
  100 * SumSeq([i \in 1..Len(inadimplentes) |-> inadimplentes[i].valor_divida])

\* C19: the optimistic recovery is the sum of debt times the rate of its status, the
\* conservative one is 0.7 times the optimistic one, conservative <= optimistic <= total,
\* and the unrecoverable value is total minus conservative and is not negative, each
\* within one centavo.
C19_CenariosDeRecuperacao ==
  analise_inadimplencia.status = "ok" =>
    /\ Abs(PotencialRecuperacao.cenario_otimista - RecuperacaoEsperada) <= 1
    /\ Abs(10 * PotencialRecuperacao.cenario_conservador
             - 7 * PotencialRecuperacao.cenario_otimista) <= 10
    /\ PotencialRecuperacao.cenario_conservador <= PotencialRecuperacao.cenario_otimista
    /\ PotencialRecuperacao.cenario_otimista <= TotalEmCentavos
    /\ PotencialRecuperacao.valor_irrecuperavel_estimado >= 0
    /\ Abs(PotencialRecuperacao.valor_irrecuperavel_estimado
             - (TotalEmCentavos - PotencialRecuperacao.cenario_conservador)) <= 1

\* an analysis returned for a ledger whose two debtors have different statuses
C19_Witness ==
  /\ analise_inadimplencia.status = "ok"
  /\ Len(inadimplentes) = 2
  /\ inadimplentes[1].status = "juridico"
  /\ inadimplentes[2].status = "acordo"
  /\ PotencialRecuperacao.cenario_otimista = 11667 * 40 + 2433 * 90

----------------------------------------------------------------------------
\* What insight generation leaves alone

\* an insight as it was when its rule created it
ComoCriado(insight) == [insight EXCEPT !.score_confianca = SemScore]

\* the insights the rules create from the map, as a set
InsightsCriados == {regras_insights(dados_analise)[k] :
                      k \in 1..Len(regras_insights(dados_analise))}

\* every returned insight is one the rules created, changed in its score only
SoOScoreMuda ==
  insights.status = "ok" =>
    /\ Len(insights.lista) = Len(regras_insights(dados_analise))
    /\ \A k \in 1..Len(insights.lista) :
         /\ ComoCriado(insights.lista[k]) \in InsightsCriados
         /\ insights.lista[k].score_confianca # SemScore

\* a step leaves the analysis map and the results of the analyzers as they were
MapaIntacto ==
  /\ dados_analise' = dados_analise
  /\ <<analise_kpis, analise_cashflow, analise_inadimplencia, analise_tendencias>>'
       = <<analise_kpis, analise_cashflow, analise_inadimplencia, analise_tendencias>>

----------------------------------------------------------------------------
\* Cash-flow trends

\* the month-ordered series of the three metrics of a returned cash-flow analysis
SeriesDasMetricas ==
  <<creditos_de(MovimentacoesAnalisadas), debitos_de(MovimentacoesAnalisadas),
    saldos_de(MovimentacoesAnalisadas)>>

\* the direction the slope num/den of a series calls for
DirecaoPeloSlope(valores) ==
  IF slope_den(valores) = 0 \/ 10 * Abs(slope_num(valores)) < slope_den(valores)
  THEN "ESTAVEL"
  ELSE IF slope_num(valores) > 0 THEN "CRESCIMENTO" ELSE "DECLINIO"

\* min(100, |slope| * 100) rounded to 0.1, in tenths
IntensidadePeloSlope(valores) ==
  IF slope_den(valores) = 0 THEN 0
  ELSE Min2(1000, QuantizeRatio(100 * Abs(slope_num(valores)), slope_den(valores), 1))

DirecoesPeloSlope ==
  analise_cashflow.status = "ok" =>
    \A m \in 1..3 :
      analise_cashflow.tendencias[m].direcao = DirecaoPeloSlope(SeriesDasMetricas[m])

IntensidadesPeloSlope ==
  analise_cashflow.status = "ok" =>
    \A m \in 1..3 :
      /\ analise_cashflow.tendencias[m].intensidade = IntensidadePeloSlope(SeriesDasMetricas[m])
      /\ analise_cashflow.tendencias[m].intensidade \in 0..1000

\* C21: for each cash-flow metric with least-squares slope s over the month-ordered
\* series, the direction is STABLE when |s| < 0.1, GROWTH when s >= 0.1 and DECLINE
\* when s <= -0.1, and in every case the intensity is min(100, |s| * 100), in [0,100].
C21_DirecaoEIntensidade == DirecoesPeloSlope /\ IntensidadesPeloSlope

----------------------------------------------------------------------------
\* Collection priority

\* the label the cut points 80, 60 and 40 give a score
RotuloDoScore(score) ==
  IF score >= 80 THEN "CRÍTICA"
  ELSE IF score >= 60 THEN "ALTA"
  ELSE IF score >= 40 THEN "MÉDIA"
  ELSE "BAIXA"

\* value weight + rank weight + status weight + risk weight of the debtor at position p
ScoreDoRanking(p) ==
  (IF Ranking[p].valor_divida >= 50000 THEN 40
   ELSE IF Ranking[p].valor_divida >= 20000 THEN 25 ELSE 10)
  + (IF 10 * p <= 2 * Len(Ranking) THEN 30
     ELSE IF 10 * p <= 5 * Len(Ranking) THEN 20 ELSE 10)
  + status_scores(Ranking[p].status)
  + risco_scores(Ranking[p].risco)

\* C22: the collection-priority score of the debtor at position p of n is value weight
\* (40/25/10) + rank weight (30 in the top 20%, 20 in the top 50%, else 10) + status
\* weight (at most 20) + risk weight (at most 10); it lies in [26,100]; the label is
\* CRÍTICA from 80, ALTA from 60, MÉDIA from 40 and BAIXA below.
C22_PrioridadeDeCobranca ==
  analise_inadimplencia.status = "ok" =>
    \A p \in 1..Len(Ranking) :
      /\ status_scores(Ranking[p].status) <= 20
      /\ risco_scores(Ranking[p].risco) <= 10
      /\ ScoreDoRanking(p) \in 26..100
      /\ Ranking[p].prioridade_cobranca = RotuloDoScore(ScoreDoRanking(p))

\* a ranking of five whose first debtor reaches the score 100 and whose last has 26
C22_Witness ==
  /\ analise_inadimplencia.status = "ok"
  /\ Len(Ranking) = 5
  /\ ScoreDoRanking(1) = 100 /\ Ranking[1].prioridade_cobranca = "CRÍTICA"
  /\ ScoreDoRanking(5) = 26 /\ Ranking[5].prioridade_cobranca = "BAIXA"

----------------------------------------------------------------------------
\* Volatility of the balances

\* the population standard deviation of the values, sqrt(sum((x - mean)^2) / n),
\* rounded to 0.01, in hundredths
DesvioPopulacional(valores) ==
  LET n == Len(valores)
      S == soma_quadrados_desvios(valores)
      q == Isqrt((10000 * S) \div (n * n))
  IN IF (2 * q + 1) * (2 * q + 1) <= (40000 * S) \div (n * n) THEN q + 1 ELSE q

\* C23: resumo_mensal.volatilidade is the population standard deviation of the
\* operating balances (squared deviations from the mean divided by the number of
\* months), rounded to 0.01.
C23_VolatilidadePopulacional ==
  analise_cashflow.status = "ok" =>
    analise_cashflow.resumo_mensal.volatilidade
      = DesvioPopulacional(saldos_de(MovimentacoesAnalisadas))

----------------------------------------------------------------------------
\* Month order

\* the analysed records are the converted input records, each once
PermutacaoDaEntrada ==
  /\ Len(MovimentacoesAnalisadas) = Len(movimentacoes)
  /\ {MovimentacoesAnalisadas[k].entrada : k \in 1..Len(MovimentacoesAnalisadas)}
       = 1..Len(movimentacoes)
  /\ \A k \in 1..Len(MovimentacoesAnalisadas) :
       LET obj == MovimentacoesAnalisadas[k]
           mov == movimentacoes[obj.entrada]
       IN /\ obj.mes = mov.mes
          /\ obj.ano = mov.ano
          /\ obj.credito = mov.credito
          /\ obj.saldo_operacional = mov.saldo_operacional

\* month indices never decrease along the list, and records of equal index are in
\* input order
OrdemPorIndiceDoMes ==
  \A k \in 1..(Len(MovimentacoesAnalisadas) - 1) :
    LET a == MovimentacoesAnalisadas[k]
        b == MovimentacoesAnalisadas[k + 1]
    IN /\ obter_indice_mes(a.mes) <= obter_indice_mes(b.mes)
       /\ obter_indice_mes(a.mes) = obter_indice_mes(b.mes) => a.entrada < b.entrada

\* C24: movimentacoes_analisadas is a permutation of the input records in
\* non-decreasing calendar-month index (case-insensitive, the year not considered, an
\* unrecognised label at index 0), equal indices in input order; the trends, the
\* alerts and the projection are computed on this order.
C24_OrdemDosMeses ==
  analise_cashflow.status = "ok" =>
    /\ PermutacaoDaEntrada
    /\ OrdemPorIndiceDoMes
    /\ \A k \in 1..Len(MovimentacoesAnalisadas) :
         /\ MovimentacoesAnalisadas[k].mes = "Mês 13" =>
              obter_indice_mes(MovimentacoesAnalisadas[k].mes) = 0
         /\ MovimentacoesAnalisadas[k].mes \in {"Maio", "JULHO", "dez", "jun"} =>
              obter_indice_mes(MovimentacoesAnalisadas[k].mes) > 0
    /\ analise_cashflow.tendencias = analisar_tendencias(MovimentacoesAnalisadas)
    /\ analise_cashflow.alertas = gerar_alertas_cashflow(MovimentacoesAnalisadas)
    /\ analise_cashflow.projecoes = gerar_projecoes(MovimentacoesAnalisadas)

\* four records returned in another order than given: the unrecognised label ahead of
\* May, behind the January record that came before it in the input, and the record of
\* the later year not last
C24_Witness ==
  /\ analise_cashflow.status = "ok"
  /\ Len(movimentacoes) = 4
  /\ movimentacoes[1].mes = "dez" /\ movimentacoes[2].mes = "Janeiro"
  /\ movimentacoes[3].mes = "Maio" /\ movimentacoes[4].mes = "Mês 13"
  /\ MovimentacoesAnalisadas[1].entrada = 2
  /\ MovimentacoesAnalisadas[2].entrada = 4
  /\ MovimentacoesAnalisadas[3].entrada = 3
  /\ MovimentacoesAnalisadas[4].entrada = 1

----------------------------------------------------------------------------
\* Monotonic series

StrictlyIncreasing(valores) ==
  Len(valores) >= 2 /\ \A i \in 1..(Len(valores) - 1) : valores[i] < valores[i + 1]

StrictlyDecreasing(valores) ==
  Len(valores) >= 2 /\ \A i \in 1..(Len(valores) - 1) : valores[i] > valores[i + 1]

\* the balances in the order the generic trend engine takes them: the input order
SaldosDaEntrada == saldos_de(movimentacoes)

\* the trend of the operating balance in a returned cash-flow analysis
DirecaoDoSaldo == analise_cashflow.tendencias[3].direcao

\* the cash-flow trend step on monotonic balances
MonotonaNoCashflow ==
  analise_cashflow.status = "ok" =>
    /\ StrictlyIncreasing(saldos_de(MovimentacoesAnalisadas)) =>
         /\ slope_num(saldos_de(MovimentacoesAnalisadas)) > 0
         /\ DirecaoDoSaldo = "CRESCIMENTO"
    /\ StrictlyDecreasing(saldos_de(MovimentacoesAnalisadas)) =>
         /\ slope_num(saldos_de(MovimentacoesAnalisadas)) < 0
         /\ DirecaoDoSaldo = "DECLINIO"

\* the generic trend engine on monotonic balances
MonotonaNoTrendAnalyzer ==
  analise_tendencias.status = "ok" =>
    /\ StrictlyIncreasing(SaldosDaEntrada) =>
         /\ analise_tendencias.tendencia_geral.inclinacao > 0
         /\ analise_tendencias.tendencia_geral.direcao = "CRESCIMENTO"
    /\ StrictlyDecreasing(SaldosDaEntrada) =>
         /\ analise_tendencias.tendencia_geral.inclinacao < 0
         /\ analise_tendencias.tendencia_geral.direcao = "DECLINIO"

\* C25: for every strictly increasing series of balances the regression slope is
\* positive and the direction GROWTH, for every strictly decreasing one the slope is
\* negative and the direction DECLINE, in the cash-flow trend step and in the generic
\* trend engine.
C25_SeriesMonotonas == MonotonaNoCashflow /\ MonotonaNoTrendAnalyzer

----------------------------------------------------------------------------
\* Well-formed records

\* at least two records, every credit >= 0, debits and balances of any sign
RegistrosBemFormados ==
  /\ Len(movimentacoes) >= 2
  /\ \A i \in 1..Len(movimentacoes) : movimentacoes[i].credito >= 0

\* C26: for every list of at least 2 well-formed monthly records (credit >= 0, any
\* sign of debit and balance) CashFlowAnalyzer.analisar returns a result rather than
\* raising, also when every balance is negative, when the largest balance is 0 and
\* when every credit is 0; every returned trend has intensity and reliability in
\* [0,100].
C26_AnaliseSemFalha ==
  (analise_cashflow.status # "none" /\ RegistrosBemFormados) =>
    /\ analise_cashflow.status = "ok"
    /\ \A m \in 1..3 :
         /\ analise_cashflow.tendencias[m].intensidade \in 0..1000
         /\ analise_cashflow.tendencias[m].confiabilidade \in 0..1000

\* C27: one engine serves any sequence of calls: the list each call returned is the
\* list a fresh engine derives from that call's argument, two calls with the same
\* argument returned equal lists, and a list a caller holds is left as it was by every
\* later call.
CadaChamadaSoDoSeuArgumento ==
  \A i \in 1..Len(listas_devolvidas) :
    listas_devolvidas[i].lista = gerar_insights_completos(listas_devolvidas[i].argumento)

MesmoMapaMesmaLista ==
  \A i, j \in 1..Len(listas_devolvidas) :
    listas_devolvidas[i].argumento = listas_devolvidas[j].argumento
      => listas_devolvidas[i].lista = listas_devolvidas[j].lista

ListasAnterioresIntactas ==
  /\ Len(listas_devolvidas') >= Len(listas_devolvidas)
  /\ \A i \in 1..Len(listas_devolvidas) : listas_devolvidas'[i] = listas_devolvidas[i]

C27_ReusoDoEngine ==
  /\ [](CadaChamadaSoDoSeuArgumento /\ MesmoMapaMesmaLista)
  /\ [][ListasAnterioresIntactas]_vars

\* three calls on one engine: the second with another map and another list than the
\* first, the third with the map of the first again, each of the lists non-empty
C27_Witness ==
  /\ Len(listas_devolvidas) = 3
  /\ listas_devolvidas[1].argumento # listas_devolvidas[2].argumento
  /\ listas_devolvidas[1].lista # listas_devolvidas[2].lista
  /\ listas_devolvidas[3].argumento = listas_devolvidas[1].argumento
  /\ \A i \in 1..3 : Len(listas_devolvidas[i].lista) > 0
  /\ insights.lista = listas_devolvidas[3].lista

\* the analysis map without its 'analise_tendencias' entry
mapa_sem_tendencias(dados) ==
  [chave \in DOMAIN dados \ {"analise_tendencias"} |-> dados[chave]]

\* the contents the 'analise_tendencias' entry is given
ConteudosDeTendencias == {AnaliseTendencias} \cup OutrasTendencias

\* C28: the list returned for a map is the list returned for every map that agrees
\* with it on the indicator, cash-flow and delinquency entries, with the
\* 'analise_tendencias' entry absent or of any content; every insight of type TENDENCIA
\* comes from a declining balance trend of the cash-flow analysis.
IgualSemTendencias ==
  insights.status = "ok" =>
    /\ insights.lista = gerar_insights_completos(mapa_sem_tendencias(dados_analise))
    /\ \A t \in ConteudosDeTendencias :
         insights.lista
           = gerar_insights_completos(Guardar(dados_analise, "analise_tendencias", t))

TendenciaVemDoCashflow ==
  insights.status = "ok" =>
    \A i \in 1..Len(insights.lista) :
      insights.lista[i].tipo = "TENDENCIA" =>
        /\ "analise_cashflow" \in DOMAIN dados_analise
        /\ \E j \in 1..Len(Get(dados_analise["analise_cashflow"], "tendencias", <<>>)) :
             LET tendencia == dados_analise["analise_cashflow"].tendencias[j]
             IN /\ tendencia.direcao = "DECLINIO"
                /\ tendencia.intensidade > 400
                /\ insights.lista[i].alvo = tendencia.metrica
                /\ insights.lista[i].valor_impacto = tendencia.intensidade * 1000 * 100

C28_InsightsSemTendencias == IgualSemTendencias /\ TendenciaVemDoCashflow

\* a call on a map of two entries, a cash-flow analysis and an 'analise_tendencias'
\* entry that reports a declining general trend: insights are returned, none of them of
\* type TENDENCIA
C28_Witness ==
  /\ insights.status = "ok"
  /\ DOMAIN dados_analise = {"analise_cashflow", "analise_tendencias"}
  /\ DOMAIN dados_analise["analise_tendencias"] # {}
  /\ dados_analise["analise_tendencias"].tendencia_geral.direcao = "DECLINIO"
  /\ Len(insights.lista) > 0
  /\ \A i \in 1..Len(insights.lista) : insights.lista[i].tipo # "TENDENCIA"

\* the positions of the 'dominant debtor' insight in the returned list
InsightsDeDominante ==
  {k \in 1..Len(InsightsRetornados) :
     /\ InsightsRetornados[k].tipo = "INADIMPLENCIA"
     /\ InsightsRetornados[k].titulo = "Inadimplente Dominante"}

\* the two figures the rules of the engine read in the delinquency analysis of the map
ConcentracaoTop3DoMapa ==
  dados_analise["analise_inadimplencia"].concentracao_dividas.concentracao_top3

ParticipacaoDoMaior ==
  dados_analise["analise_inadimplencia"].ranking_por_valor[1].participacao_percentual

\* C29: for a ledger of one, two or three debtors the analysis reports a top-3
\* concentration of 100% and a largest share above 30%, and the returned list holds
\* the CRITICAL 'high concentration' insight and the CRITICAL 'dominant debtor' insight;
\* for a ledger of four or more debtors each of the two is in the list only when the
\* share it is about exceeds its threshold (60 for the three largest debts, 30 for the
\* largest), and it is in the list when the reported share does.
AteTresDevedores ==
  (insights.status = "ok" /\ TemAnaliseInadimplencia /\ Len(DividasDoMapa) \in 1..3) =>
    /\ ConcentracaoTop3DoMapa = 1000
    /\ ParticipacaoDoMaior > 300
    /\ Cardinality(InsightsDeConcentracao) = 1
    /\ Cardinality(InsightsDeDominante) = 1
    /\ \A k \in InsightsDeConcentracao \cup InsightsDeDominante :
         InsightsRetornados[k].prioridade = "CRITICA"

QuatroOuMaisDevedores ==
  (insights.status = "ok" /\ TemAnaliseInadimplencia /\ Len(DividasDoMapa) >= 4) =>
    /\ InsightsDeConcentracao # {} => 100 * Top3DoMapa > 60 * SumSeq(DividasDoMapa)
    /\ InsightsDeDominante # {} => 100 * MaxSeq(DividasDoMapa) > 30 * SumSeq(DividasDoMapa)
    /\ ConcentracaoTop3DoMapa > 600 => InsightsDeConcentracao # {}
    /\ ParticipacaoDoMaior > 300 => InsightsDeDominante # {}

C29_LedgersPequenos == AteTresDevedores /\ QuatroOuMaisDevedores

\* the call on the analysis of two debtors who owe the same: each holds 50%, and both
\* insights are returned
C29_Witness ==
  /\ insights.status = "ok"
  /\ TemAnaliseInadimplencia
  /\ Len(DividasDoMapa) = 2
  /\ DividasDoMapa[1] = DividasDoMapa[2]
  /\ ParticipacaoDoMaior = 500
  /\ InsightsDeConcentracao # {}
  /\ InsightsDeDominante # {}

\* the indicators whose name is that of a balance
IndicadorDeSaldo(indicador) ==
  nome_normalizado(indicador.nome) \in
    {"saldo_operacional", "saldo_projetado", "saldo_projetado_final"}

\* C30: an analyzer with the default thresholds, given a map whose negative values are
\* all values of balance indicators, returns an analysis, and a negative
\* saldo_operacional is CRITICAL in it (the critical bound of its default band is 0).
C30_SaldoNegativoAceite ==
  (/\ analise_kpis.status # "none"
   /\ thresholds_kpi = SemEntradas
   /\ \A i \in 1..Len(dados_kpis) :
        dados_kpis[i].valor < 0 => IndicadorDeSaldo(dados_kpis[i])) =>
    /\ analise_kpis.status = "ok"
    /\ \A i \in 1..Len(dados_kpis) :
         (dados_kpis[i].nome = "saldo_operacional" /\ dados_kpis[i].valor < 0) =>
           KPIsAnalisados[i].status = "CRITICO"

====
